---- MODULE Spec2Model ----
(***************************************************************************)
(* Model of the API route handlers of ai-todo-manager:                     *)
(*   POST /api/ai/parse-todo   (natural-language task parser)              *)
(*   POST /api/ai/summary      (analytics + narrative summary)             *)
(*   PUT  /api/todos/[id]      (task update)                               *)
(*                                                                         *)
(* JavaScript strings are sequences of characters; every character is a    *)
(* one-element TLA+ string.  Characters that cannot be written in ASCII    *)
(* are named: "ga", "sae", "hal", "il" are Hangul syllables, "emoji" is a  *)
(* code point outside the BMP (two UTF-16 code units).                     *)
(***************************************************************************)
EXTENDS Integers, Sequences, FiniteSets, TLC

VARIABLES
    apiKey,     \* process.env.GOOGLE_GENERATIVE_AI_API_KEY is set
    today,      \* the current UTC calendar date, [y, m, d]
    hour,       \* the current hour of the day
    req,        \* the request being answered (inputs of the handler)
    resp,       \* the response of the handler, NoResp between requests
    calls,      \* the external calls the handler made, in order
    analysis,   \* the analysisData the summary handler computed
    db,         \* the todos table: a set of rows
    auth,       \* AuthProvider: [user, profile, isLoading], and the session of the client
    route,      \* ProtectedRoute: what it renders and whether its effect is due
    hook,       \* useTodos: [todos, isLoading, filter]
    pending,    \* the asynchronous operations in flight
    log         \* what the concurrent operations did, in order

vars ==
    <<apiKey, today, hour, req, resp, calls, analysis, db, auth, route, hook, pending, log>>
\* the environment of the handlers
env == <<apiKey, today, hour>>
\* the state of the browser and of the operations in flight
concurrent == <<auth, route, hook, pending, log>>

(***************************************************************************)
(* Bounds of the model.                                                    *)
(***************************************************************************)
\* how far beyond the 200-character title limit a model title may reach
MaxTitleExcess == 2
\* how far beyond the 500-character input limit a request input may reach
MaxInputExcess == 1
\* the largest number of rows of a table the summary requests start from,
\* next to the table holding the whole catalogue
MaxRows == 2
\* the most tasks a user has in one window
MaxTasks == 40
\* the most PUT requests in flight on one task
MaxPuts == 2
\* the most sign-in and sign-out calls of one browser session
MaxSigns == 3
\* the most filter changes, and the most status toggles, of one list page
MaxChanges == 2
MaxToggles == 1

(***************************************************************************)
(* Program constants.                                                      *)
(***************************************************************************)
TitleLimit == 200
MinMeaningful == 2
InputLimit == 500
MaxTags == 3

(***************************************************************************)
(* Strings.                                                                *)
(***************************************************************************)
EMOJI == "emoji"
Digits == <<"0", "1", "2", "3", "4", "5", "6", "7", "8", "9">>
DigitSet == {Digits[i] : i \in 1..10}
LowerSet == {"a", "b", "h", "i", "g", "d", "m", "p", "o", "r", "t", "w"}
UpperSet == {"A", "B"}
HangulSet == {"ga", "sae", "hal", "il"}

\* JavaScript \s
IsSpace(c) == c \in {" ", "\t", "\n"}
\* JavaScript \w
IsWord(c) == c \in LowerSet \cup UpperSet \cup DigitSet \cup {"_"}
IsDigit(c) == c \in DigitSet
DigitVal(c) == CHOOSE n \in 0..9 : Digits[n + 1] = c

\* number of UTF-16 code units of a character
UnitLen(c) == IF c = EMOJI THEN 2 ELSE 1

\* String.prototype.length: the number of UTF-16 code units
JsLength(s) == Len(s) + Cardinality({i \in 1..Len(s) : UnitLen(s[i]) = 2})

\* s repeated n times
Rep(c, n) == [i \in 1..n |-> c]

\* the positions of the characters of s that are not white space
NonSpaceAt(s) == {i \in 1..Len(s) : ~IsSpace(s[i])}

\* String.prototype.trim
Trim(s) ==
    LET at == NonSpaceAt(s) IN
    IF at = {} THEN <<>>
    ELSE SubSeq(s, CHOOSE i \in at : \A k \in at : i <= k,
                   CHOOSE j \in at : \A k \in at : k <= j)

\* s.replace(/\s/g, '')
StripSpaces(s) == SelectSeq(s, LAMBDA c : ~IsSpace(c))

\* s.replace(/\s+/g, ' '): the first character of a run of white space
\* becomes one space, the rest of the run is dropped
CollapseSpaces(s) ==
    LET marked == [i \in 1..Len(s) |->
                      IF ~IsSpace(s[i]) THEN s[i]
                      ELSE IF i > 1 /\ IsSpace(s[i - 1]) THEN "drop" ELSE " "]
    IN SelectSeq(marked, LAMBDA c : c # "drop")

ToLowerChar(c) == IF c = "A" THEN "a" ELSE IF c = "B" THEN "b" ELSE c
ToUpperChar(c) == IF c = "a" THEN "A" ELSE IF c = "b" THEN "B" ELSE c
\* String.prototype.toLowerCase
ToLowerCase(s) == [i \in 1..Len(s) |-> ToLowerChar(s[i])]

\* s.replace(/\b\w/g, c => c.toUpperCase()): a word character at the start
\* of the string or after a non-word character is upper-cased
CapitalizeWords(s) ==
    [i \in 1..Len(s) |->
        IF IsWord(s[i]) /\ (i = 1 \/ ~IsWord(s[i - 1]))
        THEN ToUpperChar(s[i]) ELSE s[i]]

\* the allow-list of preprocessInput's last replace
Allowed(c) ==
    \/ IsWord(c)
    \/ IsSpace(c)
    \/ c \in HangulSet
    \/ c \in {".", ",", "!", "?", "-", ":", "{", "}"}

\* s.replace(/[^...]/gu, '')
StripDisallowed(s) == SelectSeq(s, Allowed)

preprocessInput(input) ==
    StripDisallowed(CapitalizeWords(ToLowerCase(CollapseSpaces(Trim(input)))))

(***************************************************************************)
(* JSON values.  A scalar is [t, s, n, d]: t is the type, s the characters *)
(* of a string, n/d the value of a number (d > 0); t = "nan" is the number *)
(* NaN, which a JSON response serialises as null.  An array value carries  *)
(* its items in s as a sequence of scalars.                                *)
(***************************************************************************)
Absent == [t |-> "absent", s |-> <<>>, n |-> 0, d |-> 1]
Null == [t |-> "null", s |-> <<>>, n |-> 0, d |-> 1]
NaN == [t |-> "nan", s |-> <<>>, n |-> 0, d |-> 1]
Str(chars) == [t |-> "str", s |-> chars, n |-> 0, d |-> 1]
Num(k) == [t |-> "num", s |-> <<>>, n |-> k, d |-> 1]
Frac(k, den) == [t |-> "num", s |-> <<>>, n |-> k, d |-> den]
Bool(b) == [t |-> "bool", s |-> <<>>, n |-> IF b THEN 1 ELSE 0, d |-> 1]
Arr(items) == [t |-> "arr", s |-> items, n |-> 0, d |-> 1]
Obj == [t |-> "obj", s |-> <<>>, n |-> 0, d |-> 1]

\* ToBoolean
Truthy(v) ==
    CASE v.t \in {"absent", "null", "nan"} -> FALSE
      [] v.t = "str" -> v.s # <<>>
      [] v.t \in {"num", "bool"} -> v.n # 0
      [] OTHER -> TRUE

\* a || b
OrElse(a, b) == IF Truthy(a) THEN a ELSE b

RECURSIVE DigitsValue(_)
\* the value of a sequence of decimal digits
DigitsValue(s) ==
    IF s = <<>> THEN 0 ELSE 10 * DigitsValue(SubSeq(s, 1, Len(s) - 1)) + DigitVal(s[Len(s)])

AllDigits(s) == s # <<>> /\ \A i \in 1..Len(s) : IsDigit(s[i])

\* Number(string), for strings without fraction, exponent or radix prefix
StrToNumber(s) ==
    LET u == Trim(s) IN
    IF u = <<>> THEN Num(0)
    ELSE IF AllDigits(u) THEN Num(DigitsValue(u))
    ELSE IF Head(u) = "-" /\ AllDigits(Tail(u)) THEN Num(0 - DigitsValue(Tail(u)))
    ELSE NaN

\* ToNumber of a scalar; an array of no items is "", an object is NaN
ToNumber(v) ==
    CASE v.t \in {"num", "bool"} -> Frac(v.n, v.d)
      [] v.t = "null" -> Num(0)
      [] v.t = "str" -> StrToNumber(v.s)
      [] v.t = "arr" /\ v.s = <<>> -> Num(0)
      [] OTHER -> NaN

\* a < b on numbers; FALSE when either is NaN
NumLess(a, b) == a.t = "num" /\ b.t = "num" /\ a.n * b.d < b.n * a.d

\* v < k and v > k for a scalar v and an integer k, with JavaScript coercion
JsLess(v, k) == NumLess(ToNumber(v), Num(k))
JsGreater(v, k) == NumLess(Num(k), ToNumber(v))

\* Math.min(k, v) and Math.max(k, v) for an integer k
MathMin(k, v) ==
    LET x == ToNumber(v) IN
    IF x.t = "nan" THEN NaN ELSE IF NumLess(Num(k), x) THEN Num(k) ELSE x
MathMax(k, v) ==
    LET x == ToNumber(v) IN
    IF x.t = "nan" THEN NaN ELSE IF NumLess(x, Num(k)) THEN Num(k) ELSE x

(***************************************************************************)
(* Dates.                                                                  *)
(***************************************************************************)
Pad2(k) == <<Digits[((k \div 10) % 10) + 1], Digits[(k % 10) + 1]>>
Pad4(k) == Pad2(k \div 100) \o Pad2(k % 100)

\* new Date().toISOString().split('T')[0]
FormatDate(date) == Pad4(date.y) \o <<"-">> \o Pad2(date.m) \o <<"-">> \o Pad2(date.d)

\* /^\d{4}-\d{2}-\d{2}$/.test(s)
DateRegexTest(s) ==
    /\ Len(s) = 10
    /\ s[5] = "-" /\ s[8] = "-"
    /\ \A i \in {1, 2, 3, 4, 6, 7, 9, 10} : IsDigit(s[i])

\* the day ordinal used to order calendar dates
DateOrd(y, m, dd) == y * 10000 + m * 100 + dd

InvalidDate == [valid |-> FALSE, ord |-> 0]

\* what the engine's legacy (non-ISO) date parser may yield for a string
LegacyOutcomes == {"invalid", "past", "future"}

\* new Date(v): an ISO date-only string is valid when month is 1..12 and day
\* 1..31; a string of any other form goes to the engine's legacy parser,
\* whose outcome is `legacy`; a number is milliseconds since 1970-01-01
\* (numbers below one day only)
NewDate(v, legacy) ==
    CASE v.t = "str" /\ DateRegexTest(v.s) ->
            LET y == DigitsValue(SubSeq(v.s, 1, 4))
                m == DigitsValue(SubSeq(v.s, 6, 7))
                dd == DigitsValue(SubSeq(v.s, 9, 10))
            IN IF m \in 1..12 /\ dd \in 1..31
               THEN [valid |-> TRUE, ord |-> DateOrd(y, m, dd)]
               ELSE InvalidDate
      [] v.t = "str" /\ ~DateRegexTest(v.s) ->
            CASE legacy = "past" -> [valid |-> TRUE, ord |-> DateOrd(today.y, today.m, today.d) - 1]
              [] legacy = "future" -> [valid |-> TRUE, ord |-> DateOrd(today.y, today.m, today.d) + 1]
              [] OTHER -> InvalidDate
      [] v.t \in {"num", "bool"} /\ v.n >= 0 /\ v.n < 86400000 * v.d ->
            [valid |-> TRUE, ord |-> DateOrd(1970, 1, 1)]
      [] OTHER -> InvalidDate

\* a < b on Date objects; FALSE when either is an Invalid Date
DateLess(a, b) == a.valid /\ b.valid /\ a.ord < b.ord

\* /^([01]?[0-9]|2[0-3]):[0-5][0-9]$/.test(s)
TimeRegexTest(s) ==
    \/ /\ Len(s) = 4
       /\ IsDigit(s[1]) /\ s[2] = ":" /\ s[3] \in {"0", "1", "2", "3", "4", "5"} /\ IsDigit(s[4])
    \/ /\ Len(s) = 5
       /\ \/ s[1] \in {"0", "1"} /\ IsDigit(s[2])
          \/ s[1] = "2" /\ s[2] \in {"0", "1", "2", "3"}
       /\ s[3] = ":" /\ s[4] \in {"0", "1", "2", "3", "4", "5"} /\ IsDigit(s[5])

\* String(v) of a scalar, as far as the two regular expressions can tell:
\* only a string can match them
RegexSubject(v) == IF v.t = "str" THEN v.s ELSE <<>>

(***************************************************************************)
(* Responses and the completion collaborator.                              *)
(***************************************************************************)
NoBody == [none |-> TRUE]
NoResp == [status |-> 0, kind |-> "none", code |-> "", body |-> NoBody]
\* NextResponse.json({ error, code }, { status }); code "" when there is none
Err(status, code) == [status |-> status, kind |-> "error", code |-> code, body |-> NoBody]
\* NextResponse.json(data): status 200
Ok(kind, body) == [status |-> 200, kind |-> kind, code |-> "", body |-> body]

\* error.message.includes(word): a message is the sequence of its words
Includes(msg, word) == \E i \in 1..Len(msg) : msg[i] = word

\* the raw text of the model is a sequence of tokens: "p" is prose without
\* braces, "{" and "}" are braces inside prose, "o" is the text of a JSON
\* object (it starts with '{' and ends with '}'), "null", "5" and "[]" are
\* the texts of the literal null, of a number and of an array without braces
IsOpen(tok) == tok \in {"{", "o"}
IsClose(tok) == tok \in {"}", "o"}

\* text.match(/\{[\s\S]*\}/): from the first '{' to the last '}' of the
\* text; jsonMatch ? jsonMatch[0] : text
ExtractJson(toks) ==
    LET opens == {i \in 1..Len(toks) : IsOpen(toks[i])}
        first == CHOOSE i \in opens : \A k \in opens : i <= k
        closes == {j \in 1..Len(toks) : IsClose(toks[j]) /\ j >= first}
        last == CHOOSE j \in closes : \A k \in closes : k <= j
    IN IF opens = {} THEN toks
       ELSE IF closes = {} THEN toks
       ELSE SubSeq(toks, first, last)

\* JsonParse taking every text that is not an object for the empty object
JsonParseLenient(span, obj, emptyObj) ==
    IF span = <<"o">> THEN [ok |-> TRUE, kind |-> "obj", obj |-> obj]
    ELSE [ok |-> TRUE, kind |-> "obj", obj |-> emptyObj]

\* JSON.parse(jsonString): ok is FALSE when it throws a SyntaxError; kind is
\* the type of the value, obj the fields of a parsed object
JsonParse(span, obj, emptyObj) ==
    CASE span = <<"o">> -> [ok |-> TRUE, kind |-> "obj", obj |-> obj]
      [] span = <<"{", "}">> -> [ok |-> TRUE, kind |-> "obj", obj |-> emptyObj]
      [] span = <<"[]">> -> [ok |-> TRUE, kind |-> "arr", obj |-> emptyObj]
      [] span = <<"5">> -> [ok |-> TRUE, kind |-> "prim", obj |-> emptyObj]
      [] span = <<"null">> -> [ok |-> TRUE, kind |-> "null", obj |-> emptyObj]
      [] OTHER -> [ok |-> FALSE, kind |-> "none", obj |-> emptyObj]

(***************************************************************************)
(* POST /api/ai/parse-todo                                                 *)
(***************************************************************************)
Invalid(code) == [isValid |-> FALSE, code |-> code]

validateInput(input) ==
    IF input.t \in {"absent", "null"} THEN Invalid("MISSING_INPUT")
    ELSE IF JsLength(input.s) = 0 THEN Invalid("EMPTY_INPUT")
    ELSE LET meaningfulText == StripSpaces(input.s) IN
         IF JsLength(meaningfulText) = 0 THEN Invalid("INVALID_CONTENT")
         ELSE IF JsLength(meaningfulText) < MinMeaningful THEN Invalid("TOO_SHORT")
         ELSE IF JsLength(input.s) > InputLimit THEN Invalid("TOO_LONG")
         ELSE [isValid |-> TRUE, code |-> ""]

\* '새 할 일'
DefaultTitle == <<"sae", " ", "hal", " ", "il">>

\* data.title.substring(0, 200) + '...'
TruncateTitle(s) == SubSeq(s, 1, TitleLimit) \o <<".", ".", ".">>

\* CleanTags without the slice(0, 3)
CleanTagsNoCap(items) ==
    LET kept == SelectSeq(items, LAMBDA v : v.t = "str" /\ Len(Trim(v.s)) > 0)
    IN [i \in 1..Len(kept) |-> Str(Trim(kept[i].s))]

\* tags.filter(string with non-empty trim).map(trim).slice(0, 3)
CleanTags(items) ==
    LET kept == SelectSeq(items, LAMBDA v : v.t = "str" /\ Len(Trim(v.s)) > 0)
        trimmed == [i \in 1..Len(kept) |-> Str(Trim(kept[i].s))]
    IN SubSeq(trimmed, 1, IF Len(trimmed) < MaxTags THEN Len(trimmed) ELSE MaxTags)

\* the object of a parsed text that has none of the fields
EmptyTodoData ==
    [title |-> Absent, description |-> Absent, due_date |-> Absent,
     due_time |-> Absent, priority |-> Absent, tags |-> Absent]

postprocessData(data, legacy) ==
    LET todayStr == Str(FormatDate(today))
        title1 == IF Truthy(data.title) /\ data.title.t = "str"
                     /\ JsLength(data.title.s) > TitleLimit
                  THEN Str(TruncateTitle(data.title.s)) ELSE data.title
        title2 == IF Truthy(title1) /\ title1.t = "str" /\ JsLength(title1.s) < 2
                  THEN Str(DefaultTitle) ELSE title1
        due == IF Truthy(data.due_date)
               THEN IF DateLess(NewDate(data.due_date, legacy), NewDate(todayStr, "invalid"))
                    THEN todayStr ELSE data.due_date
               ELSE todayStr
        prio == IF Truthy(data.priority)
                   /\ (JsLess(data.priority, 1) \/ JsGreater(data.priority, 3))
                THEN Num(2) ELSE data.priority
        tags == IF Truthy(data.tags) /\ data.tags.t = "arr"
                THEN Arr(CleanTags(data.tags.s)) ELSE Arr(<<>>)
    IN [title |-> title2, description |-> data.description, due_date |-> due,
        due_time |-> data.due_time, priority |-> prio, tags |-> tags]

\* the validatedData of POST, with its two final format checks
ValidatedTodo(pp, processedInput) ==
    LET todayStr == Str(FormatDate(today))
        due == OrElse(pp.due_date, todayStr)
        time == OrElse(pp.due_time, Null)
    IN [title |-> OrElse(pp.title, Str(Trim(processedInput))),
        description |-> OrElse(pp.description, Str(<<>>)),
        due_date |-> IF DateRegexTest(RegexSubject(due)) THEN due ELSE todayStr,
        due_time |-> IF Truthy(time) /\ ~TimeRegexTest(RegexSubject(time)) THEN Null ELSE time,
        priority |-> MathMax(1, MathMin(3, OrElse(pp.priority, Num(2)))),
        status |-> "pending",
        tags |-> OrElse(pp.tags, Arr(<<>>))]

\* the catch block of the parse-todo POST
ParseTodoCatch(msg) ==
    IF Includes(msg, "quota") \/ Includes(msg, "rate limit") \/ Includes(msg, "429")
    THEN Err(429, "RATE_LIMIT_EXCEEDED")
    ELSE IF Includes(msg, "API_KEY") \/ Includes(msg, "authentication") \/ Includes(msg, "401")
    THEN Err(401, "AUTHENTICATION_FAILED")
    ELSE IF Includes(msg, "JSON") THEN Err(500, "PARSE_ERROR")
    ELSE IF Includes(msg, "network") \/ Includes(msg, "timeout") \/ Includes(msg, "fetch")
    THEN Err(500, "NETWORK_ERROR")
    ELSE Err(500, "INTERNAL_ERROR")

\* the messages of the errors the runtime itself throws
SyntaxErrorMsg == <<"Unexpected", "token", "is", "not", "valid", "JSON">>
TypeErrorMsg == <<"Cannot", "read", "properties">>

\* the request body is not JSON, or { input }
ParseTodoRun(body, gen, legacy) ==
    IF ~apiKey THEN [resp |-> Err(500, ""), calls |-> <<>>]
    ELSE IF body.malformed
    THEN [resp |-> ParseTodoCatch(SyntaxErrorMsg), calls |-> <<>>]
    ELSE IF ~Truthy(body.input) \/ body.input.t # "str"
    THEN [resp |-> Err(400, "MISSING_INPUT"), calls |-> <<>>]
    ELSE IF ~validateInput(body.input).isValid
    THEN [resp |-> Err(400, validateInput(body.input).code), calls |-> <<>>]
    ELSE LET processedInput == preprocessInput(body.input.s)
             parsed == JsonParse(ExtractJson(gen.toks), gen.obj, EmptyTodoData)
             out == IF gen.throws THEN ParseTodoCatch(gen.msg)
                    ELSE IF ~parsed.ok THEN Err(500, "")
                    ELSE IF parsed.kind \in {"null", "prim"} THEN ParseTodoCatch(TypeErrorMsg)
                    ELSE Ok("draft", ValidatedTodo(postprocessData(parsed.obj, legacy),
                                                  processedInput))
         IN [resp |-> out, calls |-> <<"generateText">>]

(***************************************************************************)
(* The inputs of the parse-todo requests.                                  *)
(***************************************************************************)
NoReq == [op |-> "none"]
\* no browser and no operation in flight: the requests are answered one by one
NoAuth == [none |-> TRUE]
NoRoute == [none |-> TRUE]
NoHook == [none |-> TRUE]
Sequential == auth = NoAuth /\ route = NoRoute /\ hook = NoHook /\ pending = {} /\ log = <<>>
NoAnalysis == [none |-> TRUE]
Hours == {9}
NoGen == [throws |-> FALSE, msg |-> <<>>, toks |-> <<>>, obj |-> EmptyTodoData]
Throw(msg) == [throws |-> TRUE, msg |-> msg, toks |-> <<>>, obj |-> EmptyTodoData]
Text(toks, obj) == [throws |-> FALSE, msg |-> <<>>, toks |-> toks, obj |-> obj]

Todays == {[y |-> 2026, m |-> 11, d |-> 3], [y |-> 2026, m |-> 11, d |-> 4]}
IsoDate(y, m, dd) == Str(FormatDate([y |-> y, m |-> m, d |-> dd]))

\* the input every model output is tried with
MainInput == Str(<<"a", "b">>)
ParseInputs ==
    {Absent, Null, Num(5), Str(<<>>), Str(<<" ">>), Str(<<" ", "\t">>), Str(<<"a">>),
     MainInput, Str(<<" ", "a", " ", " ", "B", " ">>), Str(<<EMOJI>>),
     Str(<<"a", " ", EMOJI, " ", "b">>), Str(<<"ga", "a">>), Str(Rep("a", InputLimit))}
    \cup {Str(Rep("a", InputLimit + k)) : k \in 1..MaxInputExcess}
ParseBodies ==
    {[malformed |-> FALSE, input |-> i] : i \in ParseInputs}
    \cup {[malformed |-> TRUE, input |-> Absent]}

ModelTitles ==
    {Absent, Str(<<>>), Str(<<"a">>), Str(<<"a", "b">>), Num(5), Str(Rep("a", TitleLimit))}
    \cup {Str(Rep("a", TitleLimit + k)) : k \in 1..MaxTitleExcess}
ModelDescriptions == {Absent, Str(<<"d">>)}
ModelDueDates ==
    {Absent, Null, Num(5), IsoDate(2026, 11, 2), IsoDate(2026, 11, 3), IsoDate(2026, 11, 4),
     IsoDate(2020, 13, 1), Str(<<"t", "o", "m", "o", "r", "r", "o", "w">>)}
ModelDueTimes ==
    {Absent, Str(<<"1", "5", ":", "0", "0">>), Str(<<"9", ":", "3", "0">>),
     Str(<<"2", "4", ":", "0", "0">>), Str(<<"3", "p", "m">>)}
ModelPriorities ==
    {Absent, Num(0), Num(1), Num(2), Num(3), Num(4), Num(0 - 1), Frac(5, 2),
     Str(<<"h", "i", "g", "h">>), Str(<<"2">>)}
ModelTags ==
    {Absent, Str(<<"a">>), Arr(<<>>), Arr(<<Str(<<"a">>), Str(<<"b">>)>>),
     Arr(<<Str(<<" ", "a", " ">>), Str(<<" ">>), Num(5), Str(<<>>), Str(<<"b">>),
           Null, Str(<<"t">>), Str(<<"d">>)>>)}

\* the fields of the object are repaired one by one; the objects vary the
\* title, priority, tags and due_time together, and the due_date, due_time,
\* description and priority together
ParseObjects ==
    [title : ModelTitles, description : {Absent}, due_date : {Absent},
     due_time : ModelDueTimes, priority : ModelPriorities, tags : ModelTags]
    \cup
    [title : {Str(<<"a", "b">>)}, description : ModelDescriptions, due_date : ModelDueDates,
     due_time : ModelDueTimes, priority : ModelPriorities, tags : {Absent}]
\* objects that differ from the empty one in the title only
TitleObjects == {[EmptyTodoData EXCEPT !.title = t] : t \in ModelTitles}

ThrownMessages ==
    {<<"quota">>, <<"rate limit">>, <<"429">>, <<"API_KEY">>, <<"authentication">>,
     <<"401">>, <<"JSON">>, <<"network">>, <<"timeout">>, <<"fetch">>, <<"failed">>,
     <<"fetch", "401">>}
\* texts from which no object is parsed
OddTexts ==
    {<<>>, <<"p">>, <<"o", "p", "o">>, <<"{", "p", "o">>, <<"o", "}">>, <<"}", "p", "{">>,
     <<"{", "}">>, <<"null">>, <<"5">>, <<"[]">>, <<"p", "5">>}

ParseGens ==
    {Text(<<"o">>, o) : o \in ParseObjects}
    \cup {Text(<<"p", "o", "p">>, o) : o \in TitleObjects}
SmallParseGens ==
    {Throw(m) : m \in ThrownMessages}
    \cup {Text(t, EmptyTodoData) : t \in OddTexts}
    \cup {Text(<<"o">>, o) : o \in TitleObjects}

\* the outcomes of the legacy date parser that can matter for a model output
LegacyFor(gen) ==
    IF gen.obj.due_date.t = "str" /\ gen.obj.due_date.s # <<>>
       /\ ~DateRegexTest(gen.obj.due_date.s)
    THEN LegacyOutcomes ELSE {"invalid"}

ParseTodoWith(body, gen, legacy) ==
    LET run == ParseTodoRun(body, gen, legacy) IN
    /\ resp' = run.resp
    /\ calls' = run.calls
    /\ req' = [op |-> "parse", body |-> body,
               prompt |-> IF run.calls = <<>> THEN <<>> ELSE preprocessInput(body.input.s),
               gen |-> IF run.calls = <<>> THEN NoGen ELSE gen,
               legacy |-> IF run.calls = <<>> THEN "invalid" ELSE legacy]
    /\ UNCHANGED <<env, concurrent, analysis, db>>

\* POST /api/ai/parse-todo
ParseTodo ==
    /\ resp = NoResp
    /\ \/ \E body \in ParseBodies, gen \in SmallParseGens :
             ParseTodoWith(body, gen, "invalid")
       \/ \E gen \in ParseGens : \E legacy \in LegacyFor(gen) :
             ParseTodoWith([malformed |-> FALSE, input |-> MainInput], gen, legacy)

\* the response is delivered; the handler keeps no state between requests
Respond ==
    /\ resp # NoResp
    /\ resp' = NoResp
    /\ req' = NoReq
    /\ calls' = <<>>
    /\ analysis' = NoAnalysis
    /\ UNCHANGED <<env, concurrent, db>>

InitParse ==
    /\ apiKey \in BOOLEAN
    /\ today \in Todays
    /\ hour \in Hours
    /\ req = NoReq
    /\ resp = NoResp
    /\ calls = <<>>
    /\ analysis = NoAnalysis
    /\ db = {}
    /\ Sequential

NextParse == ParseTodo \/ Respond

SpecParse == InitParse /\ [][NextParse]_vars

(***************************************************************************)
(* Properties of POST /api/ai/parse-todo.                                  *)
(***************************************************************************)
IsParse == req.op = "parse"
IsDraft == req.op = "parse" /\ resp.kind = "draft"
\* the object the handler parsed out of the model's text
ModelObj == req.gen.obj
AllSpaces(s) == s # <<>> /\ \A i \in 1..Len(s) : IsSpace(s[i])

\* C1: with the API key configured, a parse request whose input is the empty
\* string is rejected with 400 EMPTY_INPUT, one whose input is only white
\* space with 400 INVALID_CONTENT, and one whose input is null or absent
\* with 400 MISSING_INPUT.
C1_RespectiveCodes ==
    (apiKey /\ IsParse /\ ~req.body.malformed) =>
        LET input == req.body.input IN
        /\ (input.t = "str" /\ input.s = <<>>) => resp = Err(400, "EMPTY_INPUT")
        /\ (input.t = "str" /\ AllSpaces(input.s)) => resp = Err(400, "INVALID_CONTENT")
        /\ (input.t \in {"absent", "null"}) => resp = Err(400, "MISSING_INPUT")

\* C2: the title of every returned TaskDraft is a non-empty string of at
\* most 200 characters.
C2_TitleBounded ==
    IsDraft =>
        /\ resp.body.title.t = "str"
        /\ JsLength(resp.body.title.s) >= 1
        /\ JsLength(resp.body.title.s) <= TitleLimit

\* C3: the priority of every returned TaskDraft is one of the integers 1, 2,
\* 3, and it is 2 when the model's priority is absent or outside [1,3].
C3_PriorityInRange ==
    IsDraft =>
        /\ resp.body.priority \in {Num(1), Num(2), Num(3)}
        /\ (ModelObj.priority.t = "absent"
            \/ (ModelObj.priority.t = "num"
                /\ (JsLess(ModelObj.priority, 1) \/ JsGreater(ModelObj.priority, 3))))
           => resp.body.priority = Num(2)

\* C4: the due_date of every returned TaskDraft matches YYYY-MM-DD and is a
\* date not before today.
C4_DueDateNotPast ==
    IsDraft =>
        /\ resp.body.due_date.t = "str"
        /\ DateRegexTest(resp.body.due_date.s)
        /\ DateOrd(DigitsValue(SubSeq(resp.body.due_date.s, 1, 4)),
                   DigitsValue(SubSeq(resp.body.due_date.s, 6, 7)),
                   DigitsValue(SubSeq(resp.body.due_date.s, 9, 10)))
             >= DateOrd(today.y, today.m, today.d)

\* the strictly increasing maps of 1..n into 1..m
Embeddings(n, m) == {f \in [1..n -> 1..m] : \A i \in 1..n : \A j \in 1..n : i < j => f[i] < f[j]}

\* C5: the tags of every returned TaskDraft are at most 3 trimmed non-empty
\* strings, taken in order from the string entries of the model's tags (no
\* usable entry is skipped before a kept one is full), and the list is empty
\* when the model gives no array.
C5_TagsCleaned ==
    IsDraft =>
        LET out == resp.body.tags
            given == ModelObj.tags
            usable == {i \in 1..Len(given.s) :
                          given.s[i].t = "str" /\ \E k \in 1..Len(given.s[i].s) :
                                                      ~IsSpace(given.s[i].s[k])}
        IN /\ out.t = "arr"
           /\ Len(out.s) <= MaxTags
           /\ \A i \in 1..Len(out.s) :
                 /\ out.s[i].t = "str"
                 /\ out.s[i].s # <<>>
                 /\ ~IsSpace(out.s[i].s[1])
                 /\ ~IsSpace(out.s[i].s[Len(out.s[i].s)])
           /\ given.t # "arr" => out.s = <<>>
           /\ given.t = "arr" =>
                 /\ Len(out.s) = (IF Cardinality(usable) < MaxTags
                                  THEN Cardinality(usable) ELSE MaxTags)
                 /\ \E f \in Embeddings(Len(out.s), Len(given.s)) :
                       \A i \in 1..Len(out.s) :
                          /\ f[i] \in usable
                          /\ \A k \in usable : k < f[i] => \E j \in 1..i : f[j] = k
                          /\ \E a \in 0..Len(given.s[f[i]].s) :
                                \E b \in 0..Len(given.s[f[i]].s) :
                                   /\ a + Len(out.s[i].s) + b = Len(given.s[f[i]].s)
                                   /\ SubSeq(given.s[f[i]].s, a + 1, a + Len(out.s[i].s))
                                         = out.s[i].s

\* C5 witness: a draft made from a model array holding more than three
\* usable strings next to blank and non-string entries
C5_Witness ==
    /\ IsDraft
    /\ ModelObj.tags.t = "arr"
    /\ Len(ModelObj.tags.s) > 4
    /\ Len(resp.body.tags.s) = MaxTags
    /\ resp.body.tags.s[1] = Str(<<"a">>)

(***************************************************************************)
(* Calendar and timestamps.  A timestamp is [y, m, d, h]; the process runs *)
(* in UTC, so local midnight is UTC midnight.                              *)
(***************************************************************************)
IsLeap(y) == (y % 4 = 0 /\ y % 100 # 0) \/ y % 400 = 0
DaysInMonth(y, m) ==
    IF m = 2 THEN (IF IsLeap(y) THEN 29 ELSE 28)
    ELSE IF m \in {4, 6, 9, 11} THEN 30 ELSE 31

NextDay(date) ==
    IF date.d < DaysInMonth(date.y, date.m) THEN [date EXCEPT !.d = date.d + 1]
    ELSE IF date.m < 12 THEN [y |-> date.y, m |-> date.m + 1, d |-> 1]
    ELSE [y |-> date.y + 1, m |-> 1, d |-> 1]
PrevDay(date) ==
    IF date.d > 1 THEN [date EXCEPT !.d = date.d - 1]
    ELSE IF date.m > 1
    THEN [y |-> date.y, m |-> date.m - 1, d |-> DaysInMonth(date.y, date.m - 1)]
    ELSE [y |-> date.y - 1, m |-> 12, d |-> 31]

RECURSIVE AddDays(_, _)
\* new Date(y, m, d + k)
AddDays(date, k) ==
    IF k = 0 THEN date
    ELSE IF k > 0 THEN AddDays(NextDay(date), k - 1)
    ELSE AddDays(PrevDay(date), k + 1)

\* Date.prototype.getDay: 0 is Sunday
GetDay(date) ==
    LET t == <<0, 3, 2, 5, 0, 3, 5, 1, 4, 6, 2, 4>>
        y == IF date.m < 3 THEN date.y - 1 ELSE date.y
    IN (y + (y \div 4) - (y \div 100) + (y \div 400) + t[date.m] + date.d) % 7

At(date, h) == [y |-> date.y, m |-> date.m, d |-> date.d, h |-> h]
Ts(y, m, dd, h) == [y |-> y, m |-> m, d |-> dd, h |-> h]
\* the NULL of a TIMESTAMPTZ column
NullTs == [y |-> 0, m |-> 0, d |-> 0, h |-> 0]
TsOrd(ts) == DateOrd(ts.y, ts.m, ts.d) * 100 + ts.h
\* new Date()
Now == At(today, hour)

\* a TIMESTAMPTZ column as the store returns it: 2026-11-03T00:00:00+00:00
FormatTs(ts) ==
    FormatDate(ts) \o <<"T">> \o Pad2(ts.h)
    \o <<":", "0", "0", ":", "0", "0", "+", "0", "0", ":", "0", "0">>
\* the due_date of a row in a JSON answer
DueJson(row) == IF row.due_date = NullTs THEN Null ELSE Str(FormatTs(row.due_date))

(***************************************************************************)
(* The todos table and the session.                                        *)
(***************************************************************************)
Users == {"u1", "u2"}
NoUser == "nobody"

\* OwnedBy without the owner filter
OwnedByAnyone(user) == db

\* .eq('user_id', user.id), with the row-level-security policy
\* auth.uid() = user_id
OwnedBy(user) == {r \in db : r.user_id = user}

\* and(created_at.gte.S, created_at.lt.E), and(due_date.gte.S, due_date.lt.E)
InWindow(r, start, end) ==
    \/ TsOrd(r.created_at) >= TsOrd(At(start, 0)) /\ TsOrd(r.created_at) < TsOrd(At(end, 0))
    \/ /\ r.due_date # NullTs
       /\ TsOrd(r.due_date) >= TsOrd(At(start, 0))
       /\ TsOrd(r.due_date) < TsOrd(At(end, 0))

RECURSIVE CreatedDesc(_)
\* .order('created_at', { ascending: false }): the orders the store may
\* return a set of rows in (rows created at the same time come in any order)
CreatedDesc(rows) ==
    IF rows = {} THEN {<<>>}
    ELSE LET latest == {r \in rows : \A o \in rows : TsOrd(r.created_at) >= TsOrd(o.created_at)}
         IN UNION {{<<r>> \o q : q \in CreatedDesc(rows \ {r})} : r \in latest}

\* the current and the previous window of a period
Windows(period) ==
    IF period = "today"
    THEN [currentStart |-> today, currentEnd |-> AddDays(today, 1),
          previousStart |-> AddDays(today, 0 - 1), previousEnd |-> today]
    ELSE LET dayOfWeek == GetDay(today) IN
         [currentStart |-> AddDays(today, 0 - dayOfWeek),
          currentEnd |-> AddDays(today, 7 - dayOfWeek),
          previousStart |-> AddDays(today, 0 - dayOfWeek - 7),
          previousEnd |-> AddDays(today, 0 - dayOfWeek)]

(***************************************************************************)
(* POST /api/ai/summary: the analysis data.                                *)
(***************************************************************************)
\* the number of bits of a positive integer
BitLength(k) == CHOOSE n \in 1..31 : 2^(n - 1) <= k /\ (n = 31 \/ k < 2^n)

\* the 53-bit significand of the double nearest to a / b, for 0 < a < b < 2^13:
\* a / b = (hi * 2^36 + mid * 2^18 + lo) * 2^-(exp + 52), rounded to nearest,
\* ties to even; the significand is held in limbs of 17, 18 and 18 bits
DoubleQuotient(a, b) ==
    LET exp == CHOOSE k \in 1..13 : a * 2^k >= b /\ a * 2^(k - 1) < b
        r0 == a * 2^(exp - 1)
        hi == (r0 * 2^17) \div b
        r1 == (r0 * 2^17) % b
        mid == (r1 * 2^18) \div b
        r2 == (r1 * 2^18) % b
        lo == (r2 * 2^18) \div b
        r3 == (r2 * 2^18) % b
        up == IF 2 * r3 > b \/ (2 * r3 = b /\ lo % 2 = 1) THEN 1 ELSE 0
        lo1 == lo + up
        mid1 == mid + lo1 \div 2^18
        hi1 == hi + mid1 \div 2^18
    IN [exp |-> exp, hi |-> hi1, mid |-> mid1 % 2^18, lo |-> lo1 % 2^18]

\* the double nearest to q * 100, as the top limb of its significand and its
\* exponent: the exact product is rounded to 53 bits, ties to even
DoubleTimes100(q) ==
    LET lo0 == q.lo * 100
        mid0 == q.mid * 100 + lo0 \div 2^18
        hi0 == q.hi * 100 + mid0 \div 2^18
        drop == BitLength(hi0) - 17
        low == (lo0 % 2^18) % 2^drop
        kept == (lo0 % 2^18) \div 2^drop
        half == 2^(drop - 1)
        up == IF low > half \/ (low = half /\ kept % 2 = 1) THEN 1 ELSE 0
        lo1 == (kept + up) * 2^drop
        mid1 == (mid0 % 2^18) + lo1 \div 2^18
        hi1 == hi0 + mid1 \div 2^18
    IN [exp |-> q.exp, hi |-> hi1]

\* Math.round(x) = floor(x + 1/2) of the double x = hi * 2^36 * 2^-(exp + 52),
\* whose lower limbs are below 2^36
RoundDouble(x) == ((x.hi \div 2^(x.exp + 15)) + 1) \div 2

\* Math.round((a / b) * 100) for 0 <= a <= b, 0 < b < 2^13, in the double
\* arithmetic of the language
RoundPercent(a, b) ==
    IF a = 0 THEN 0
    ELSE IF a = b THEN 100
    ELSE RoundDouble(DoubleTimes100(DoubleQuotient(a, b)))

Count(q, P(_)) == Cardinality({i \in 1..Len(q) : P(q[i])})

IsCompleted(r) == r.status = "completed"
IsPending(r) == r.status = "pending"
IsOverdue(r) ==
    r.due_date # NullTs /\ r.status # "completed" /\ TsOrd(r.due_date) < TsOrd(Now)
\* IsOnTime where a task without due date is not on time
IsOnTimeDated(r) == r.due_date # NullTs /\ TsOrd(r.updated_at) <= TsOrd(r.due_date)
IsOnTime(r) == r.due_date = NullTs \/ TsOrd(r.updated_at) <= TsOrd(r.due_date)
IsPostponed(r) ==
    /\ r.due_date # NullTs
    /\ TsOrd(r.updated_at) > TsOrd(r.created_at)
    /\ r.status # "completed"
    /\ TsOrd(r.updated_at) > TsOrd(r.due_date)

AnalysisData(period, todos, previousTodos) ==
    LET total == Len(todos)
        completed == Count(todos, IsCompleted)
        completionRate == IF total > 0 THEN RoundPercent(completed, total) ELSE 0
        previousCompleted == Count(previousTodos, IsCompleted)
        previousCompletionRate ==
            IF Len(previousTodos) > 0
            THEN RoundPercent(previousCompleted, Len(previousTodos)) ELSE 0
        onTime == Count(todos, LAMBDA r : IsCompleted(r) /\ IsOnTime(r))
    IN [period |-> IF period = "today" THEN "oneul" ELSE "ibeon ju",
        totalTasks |-> total,
        completedTasks |-> completed,
        pendingTasks |-> Count(todos, IsPending),
        urgentTasks |-> Count(todos, LAMBDA r : r.priority = 1),
        overdueTasks |-> Count(todos, IsOverdue),
        completionRate |-> completionRate,
        previousCompletionRate |-> previousCompletionRate,
        completionRateChange |-> completionRate - previousCompletionRate,
        deadlineComplianceRate |->
            IF completed > 0 THEN RoundPercent(onTime, completed) ELSE 0,
        postponementRate |->
            IF total > 0 THEN RoundPercent(Count(todos, IsPostponed), total) ELSE 0]

(***************************************************************************)
(* POST /api/ai/summary: the lists and the reconciliation.                 *)
(***************************************************************************)
\* Array.prototype.sort with a comparator that orders by key: stable
StableSortBy(q, key(_)) ==
    LET place(qv, keys) ==
            [k \in 1..Len(qv) |->
                qv[CHOOSE i \in 1..Len(qv) :
                      k = 1 + Cardinality({j \in 1..Len(qv) :
                                 \/ keys[j] < keys[i]
                                 \/ keys[j] = keys[i] /\ j < i})]]
        \* the list and the keys of its items, each computed once
        sortings == UNION {{place(qv, keys) : keys \in {[i \in 1..Len(qv) |-> key(qv[i])]}} :
                              qv \in {q}}
    IN CHOOSE sorted \in sortings : TRUE

\* the { title, priority, due_date, tags } of a listed task
TodoItem(r) ==
    [title |-> r.title, priority |-> r.priority, due_date |-> DueJson(r), tags |-> r.tags]

\* SortedPending without the sort
PendingAsFetched(todos) == SelectSeq(todos, IsPending)

\* pendingTodos.sort((a, b) => a.priority - b.priority); the sort is in place
SortedPending(todos) == StableSortBy(SelectSeq(todos, IsPending), LAMBDA r : r.priority)

RemainingTodos(todos) ==
    LET sorted == SortedPending(todos) IN [i \in 1..Len(sorted) |-> TodoItem(sorted[i])]

\* todo.due_date === today: the stored timestamp text against YYYY-MM-DD
IsDueToday(r) == DueJson(r) = Str(FormatDate(today))
\* IsDueSoon without the tasks whose due date has passed
IsDueSoonAhead(r) ==
    /\ r.due_date # NullTs
    /\ TsOrd(r.due_date) >= TsOrd(At(today, 0))
    /\ TsOrd(r.due_date) <= TsOrd(At(AddDays(today, 2), hour))

\* new Date(todo.due_date) <= new Date(Date.now() + 2 days)
IsDueSoon(r) ==
    r.due_date # NullTs /\ TsOrd(r.due_date) <= TsOrd(At(AddDays(today, 2), hour))
IsFocus(r) == r.priority = 1 \/ IsDueToday(r) \/ IsDueSoon(r)
FocusLimit == 5

FocusTasks(todos) ==
    LET eligible == SelectSeq(SortedPending(todos), IsFocus)
        sorted == StableSortBy(eligible,
                      LAMBDA r : (IF IsDueToday(r) THEN 0 ELSE 10) + r.priority)
        n == IF Len(sorted) < FocusLimit THEN Len(sorted) ELSE FocusLimit
    IN [i \in 1..n |-> TodoItem(sorted[i])]

RECURSIVE Dec(_)
\* the decimal digits of a natural number
Dec(k) == IF k < 10 THEN <<Digits[k + 1]>> ELSE Dec(k \div 10) \o <<Digits[(k % 10) + 1]>>
\* ${n} in a template string
Interp(k) == IF k < 0 THEN <<"-">> \o Dec(0 - k) ELSE Dec(k)

\* a JSON object: the sequence of its <<key, value>> members
ObjOf(members) == [t |-> "obj", s |-> members, n |-> 0, d |-> 1]

\* the fixed texts of the report; a text is one character of the model
DefaultSummary(a) ==
    Str(<<a.period, " ", "chong", " ">> \o Interp(a.totalTasks)
        \o <<"gae-ui hal il jung", " ">> \o Interp(a.completedTasks)
        \o <<"gae wanryo", " ", "(">> \o Interp(a.completionRate) \o <<"%", ")">>)
DefaultCompletionAnalysis(a) ==
    ObjOf(<<<<"rate", Str(<<"wanryoyul", " ">> \o Interp(a.completionRate) \o <<"%">>)>>,
            <<"trend", IF a.completionRateChange > 0
                       THEN Str(<<"ijeon gigan daebi hyangsang">>)
                       ELSE Str(<<"anjeongjeogin sujun yuji">>)>>,
            <<"strengths", Str(<<"kkujunhan jinhaeng">>)>>>>)
DefaultTimeManagement(a) ==
    ObjOf(<<<<"deadlineCompliance",
              Str(<<"magamil junsuyul", " ">> \o Interp(a.deadlineComplianceRate) \o <<"%">>)>>,
            <<"postponementPattern", IF a.postponementRate > 0
                                     THEN Str(<<"ilbu yeongi balsaeng">>)
                                     ELSE Str(<<"gyehoekdaero jinhaeng">>)>>,
            <<"productiveHours", Str(<<"dayanghan sigandae">>)>>>>)
DefaultProductivityPatterns ==
    ObjOf(<<<<"bestPerformingAreas", Str(<<"gibonjeogin hal il gwanri">>)>>,
            <<"strugglingAreas", Str(<<"deo maneun deiteo">>)>>,
            <<"priorityEffectiveness", Str(<<"useonsunwi seoljeong">>)>>>>)
DefaultInsights == Arr(<<Str(<<"deo maneun hal il-eul chugahamyeon">>)>>)
DefaultRecommendations == Arr(<<Str(<<"kkujunhi hal il-eul gwanri">>)>>)
DefaultMotivation(a) ==
    ObjOf(<<<<"achievements",
              Str(<<a.period, " ">> \o Interp(a.completedTasks) \o <<"gae-ui hal il-eul wanryo">>)>>,
            <<"encouragement", Str(<<"kkujunhan noryeok">>)>>,
            <<"nextSteps", Str(<<"daeum-edo ireon sokdo-ro">>)>>>>)

\* Array.isArray(v) ? v : fallback
ArrayOr(v, fallback) == IF v.t = "arr" THEN v ELSE fallback

\* the object of a parsed text that has none of the fields
EmptySummaryData ==
    [summary |-> Absent, urgentTasks |-> Absent, completionAnalysis |-> Absent,
     timeManagement |-> Absent, productivityPatterns |-> Absent, insights |-> Absent,
     recommendations |-> Absent, motivation |-> Absent]

\* the validatedData of the summary POST
ValidatedSummary(parsedData, a, todos) ==
    [summary |-> OrElse(parsedData.summary, DefaultSummary(a)),
     urgentTasks |-> ArrayOr(parsedData.urgentTasks, Arr(<<>>)),
     remainingTodos |-> RemainingTodos(todos),
     focusTasks |-> FocusTasks(todos),
     completionAnalysis |-> OrElse(parsedData.completionAnalysis, DefaultCompletionAnalysis(a)),
     timeManagement |-> OrElse(parsedData.timeManagement, DefaultTimeManagement(a)),
     productivityPatterns |-> OrElse(parsedData.productivityPatterns, DefaultProductivityPatterns),
     insights |-> ArrayOr(parsedData.insights, DefaultInsights),
     recommendations |-> ArrayOr(parsedData.recommendations, DefaultRecommendations),
     motivation |-> OrElse(parsedData.motivation, DefaultMotivation(a))]

\* CannedSummary with the text of today for both periods
CannedSummaryOfToday(period) ==
    [summary |-> Str(<<"oneul deungrokdoen hal il-i eopseumnida">>),
     urgentTasks |-> Arr(<<>>),
     insights |-> Arr(<<Str(<<"saeroun hal il-eul chugahaeboseyo">>)>>),
     recommendations |-> Arr(<<Str(<<"hal il-eul chugahayeo">>)>>)]

\* the answer for a window without tasks
CannedSummary(period) ==
    [summary |-> IF period = "today" THEN Str(<<"oneul deungrokdoen hal il-i eopseumnida">>)
                 ELSE Str(<<"ibeon ju deungrokdoen hal il-i eopseumnida">>),
     urgentTasks |-> Arr(<<>>),
     insights |-> Arr(<<Str(<<"saeroun hal il-eul chugahaeboseyo">>)>>),
     recommendations |-> Arr(<<Str(<<"hal il-eul chugahayeo">>)>>)]

\* the catch block of the summary POST
SummaryCatch(msg) ==
    IF Includes(msg, "quota") \/ Includes(msg, "rate limit") \/ Includes(msg, "429")
    THEN Err(429, "RATE_LIMIT_EXCEEDED")
    ELSE IF Includes(msg, "API_KEY") \/ Includes(msg, "authentication") \/ Includes(msg, "401")
    THEN Err(401, "AUTHENTICATION_FAILED")
    ELSE Err(500, "INTERNAL_ERROR")

\* IsPeriod accepting every text
IsPeriodAnyText(v) == Truthy(v) /\ v.t = "str"

\* the periods the handler accepts
IsPeriod(v) == Truthy(v) /\ v.t = "str" /\ v.s \in {<<"today">>, <<"week">>}
PeriodName(v) == v.s[1]

SummaryRun(body, caller, storeFails, todos, previousTodos, gen) ==
    IF ~apiKey THEN [resp |-> Err(500, ""), calls |-> <<>>, analysis |-> NoAnalysis]
    ELSE IF body.malformed
    THEN [resp |-> SummaryCatch(SyntaxErrorMsg), calls |-> <<>>, analysis |-> NoAnalysis]
    ELSE IF ~IsPeriod(body.period)
    THEN [resp |-> Err(400, "INVALID_PERIOD"), calls |-> <<>>, analysis |-> NoAnalysis]
    ELSE IF caller = NoUser
    THEN [resp |-> Err(401, ""), calls |-> <<"getUser">>, analysis |-> NoAnalysis]
    ELSE IF storeFails
    THEN [resp |-> Err(500, ""), calls |-> <<"getUser", "query", "query">>,
          analysis |-> NoAnalysis]
    ELSE IF Len(todos) = 0
    THEN [resp |-> Ok("canned", CannedSummary(PeriodName(body.period))),
          calls |-> <<"getUser", "query", "query">>, analysis |-> NoAnalysis]
    ELSE LET a == AnalysisData(PeriodName(body.period), todos, previousTodos)
             parsed == JsonParse(ExtractJson(gen.toks), gen.obj, EmptySummaryData)
             out == IF gen.throws THEN SummaryCatch(gen.msg)
                    ELSE IF ~parsed.ok THEN Err(500, "PARSE_ERROR")
                    ELSE IF parsed.kind = "null" THEN SummaryCatch(TypeErrorMsg)
                    ELSE Ok("report", ValidatedSummary(parsed.obj, a, todos))
         IN [resp |-> out, calls |-> <<"getUser", "query", "query", "generateText">>,
             analysis |-> a]

(***************************************************************************)
(* The inputs of the summary requests.                                     *)
(***************************************************************************)
Row(id, user, title, due, status, priority, tags, created, updated) ==
    [id |-> id, user_id |-> user, title |-> title, description |-> Null, due_date |-> due,
     status |-> status, priority |-> priority, tags |-> tags,
     created_at |-> created, updated_at |-> updated]

Catalogue ==
    {Row("t1", "u1", <<"t", "1">>, NullTs, "pending", 1, <<>>,
         Ts(2026, 11, 3, 8), Ts(2026, 11, 3, 8)),
     Row("t2", "u1", <<"t", "2">>, Ts(2026, 11, 3, 0), "completed", 2, <<<<"w">>>>,
         Ts(2026, 11, 3, 7), Ts(2026, 11, 3, 9)),
     Row("t3", "u1", <<"t", "3">>, Ts(2026, 11, 4, 0), "pending", 3, <<>>,
         Ts(2026, 11, 2, 10), Ts(2026, 11, 2, 10)),
     Row("t4", "u1", <<"t", "4">>, Ts(2026, 11, 5, 18), "completed", 1, <<>>,
         Ts(2026, 11, 3, 6), Ts(2026, 11, 3, 12)),
     Row("t5", "u1", <<"t", "5">>, Ts(2026, 11, 2, 0), "pending", 2, <<>>,
         Ts(2026, 11, 1, 5), Ts(2026, 11, 3, 5)),
     Row("t6", "u2", <<"t", "6">>, NullTs, "pending", 1, <<>>,
         Ts(2026, 11, 3, 4), Ts(2026, 11, 3, 4)),
     Row("t7", "u1", <<"t", "7">>, Ts(2026, 11, 3, 0), "pending", 1, <<>>,
         Ts(2026, 11, 3, 3), Ts(2026, 11, 3, 3))}

SummaryDbs == {rows \in SUBSET Catalogue : Cardinality(rows) <= MaxRows} \cup {Catalogue}

\* a table of u1 with total tasks created in the first days of the week, the
\* first completed of them completed
Ledger(total, completed) ==
    {Row("k" \o ToString(i), "u1", <<"k", ToString(i)>>, NullTs,
         IF i <= completed THEN "completed" ELSE "pending", 1 + (i % 3), <<>>,
         Ts(2026, 11, 1 + ((i - 1) \div 24), (i - 1) % 24),
         Ts(2026, 11, 1 + ((i - 1) \div 24), (i - 1) % 24)) : i \in 1..total}

\* the counts of completed tasks whose share of total falls on a half percent
HalfwayCounts(total) == {c \in 1..total : (200 * c) % (2 * total) = total}

\* the large tables: the largest window and the one below, with each count
\* of completed tasks that falls on a half percent
Ledgers ==
    UNION {{Ledger(total, c) : c \in HalfwayCounts(total)} :
              total \in (MaxTasks - 1)..MaxTasks}

SummaryBodies ==
    {[malformed |-> FALSE, period |-> v] :
        v \in {Str(<<"today">>), Str(<<"week">>), Str(<<"month">>), Str(<<>>), Absent, Num(7)}}
    \cup {[malformed |-> TRUE, period |-> Absent]}

FullCompletionAnalysis ==
    ObjOf(<<<<"rate", Str(<<"r">>)>>, <<"trend", Str(<<"t">>)>>, <<"strengths", Str(<<"g">>)>>>>)
FullTimeManagement ==
    ObjOf(<<<<"deadlineCompliance", Str(<<"d">>)>>, <<"postponementPattern", Str(<<"p">>)>>,
            <<"productiveHours", Str(<<"h">>)>>>>)
FullProductivityPatterns ==
    ObjOf(<<<<"bestPerformingAreas", Str(<<"b">>)>>, <<"strugglingAreas", Str(<<"g">>)>>,
            <<"priorityEffectiveness", Str(<<"p">>)>>>>)
FullMotivation ==
    ObjOf(<<<<"achievements", Str(<<"a">>)>>, <<"encouragement", Str(<<"b">>)>>,
            <<"nextSteps", Str(<<"g">>)>>>>)
\* values of the wrong type for a sub-object of the report
WrongObjects ==
    {Str(<<"g", "o", "o", "d">>), Num(5), Arr(<<>>), ObjOf(<<<<"rate", Str(<<"r">>)>>>>),
     ObjOf(<<<<"rate", Num(5)>>, <<"trend", Str(<<"t">>)>>, <<"strengths", Str(<<"g">>)>>>>)}

ModelSummaries == {Absent, Str(<<>>), Str(<<"g", "o", "o", "d">>), Num(5)}
ModelUrgentTasks == {Absent, Str(<<"t", "1">>), Arr(<<>>), Arr(<<Str(<<"t", "1">>)>>)}
ModelInsights ==
    {Absent, Null, Str(<<"t", "i", "p">>), Arr(<<>>), Arr(<<Str(<<"t", "i", "p">>)>>),
     Arr(<<Num(5)>>)}
ModelCompletionAnalyses == {Absent, Null, FullCompletionAnalysis} \cup WrongObjects
ModelTimeManagements == {Absent, FullTimeManagement, Num(5), ObjOf(<<>>)}
ModelProductivityPatterns == {Absent, FullProductivityPatterns, Arr(<<>>)}
ModelMotivations == {Absent, FullMotivation, Str(<<"g", "o">>)}

\* the fields are reconciled one by one; the objects vary the scalar and
\* array fields together, and the four sub-objects together
SummaryObjects ==
    [summary : ModelSummaries, urgentTasks : ModelUrgentTasks,
     completionAnalysis : {Absent}, timeManagement : {Absent},
     productivityPatterns : {Absent}, insights : ModelInsights,
     recommendations : ModelInsights, motivation : {Absent}]
    \cup
    [summary : {Absent}, urgentTasks : {Absent},
     completionAnalysis : ModelCompletionAnalyses, timeManagement : ModelTimeManagements,
     productivityPatterns : ModelProductivityPatterns, insights : {Absent},
     recommendations : {Absent}, motivation : ModelMotivations]

NoSummaryGen == [throws |-> FALSE, msg |-> <<>>, toks |-> <<>>, obj |-> EmptySummaryData]
SummaryThrow(msg) == [NoSummaryGen EXCEPT !.throws = TRUE, !.msg = msg]
SummaryText(toks, obj) == [NoSummaryGen EXCEPT !.toks = toks, !.obj = obj]

SummaryGens == {SummaryText(<<"o">>, o) : o \in SummaryObjects}
SmallSummaryGens ==
    {SummaryThrow(m) : m \in ThrownMessages}
    \cup {SummaryText(t, EmptySummaryData) : t \in OddTexts}
    \cup {SummaryText(<<"p", "o", "p">>, [EmptySummaryData EXCEPT !.insights = v]) :
             v \in ModelInsights}

\* the rows a window query of the caller returns, in the order of the store
QueryWindow(caller, start, end) ==
    CreatedDesc({r \in OwnedBy(caller) : InWindow(r, start, end)})

\* one request with each of the collaborator's outcomes in gens
SummaryWith(body, caller, storeFails, gens) ==
    LET w == Windows(PeriodName(body.period))
        asked == apiKey /\ ~body.malformed /\ IsPeriod(body.period) /\ caller # NoUser
    IN \E todos \in (IF asked /\ ~storeFails
                     THEN QueryWindow(caller, w.currentStart, w.currentEnd) ELSE {<<>>}) :
       \E previousTodos \in (IF asked /\ ~storeFails
                             THEN QueryWindow(caller, w.previousStart, w.previousEnd)
                             ELSE {<<>>}) :
       \E gen \in gens :
          LET run == SummaryRun(body, caller, storeFails, todos, previousTodos, gen)
              called == Len(run.calls) = 4
          IN /\ resp' = run.resp
             /\ calls' = run.calls
             /\ analysis' = run.analysis
             /\ req' = [op |-> "summary", body |-> body,
                        caller |-> caller,
                        storeFails |-> asked /\ storeFails,
                        todos |-> todos, previousTodos |-> previousTodos,
                        gen |-> IF called THEN gen ELSE NoSummaryGen]
             /\ UNCHANGED <<env, concurrent, db>>

\* POST /api/ai/summary
Summary ==
    /\ resp = NoResp
    /\ \/ \E body \in SummaryBodies, caller \in Users \cup {NoUser} :
             SummaryWith(body, caller, FALSE, {SummaryText(<<"{", "}">>, EmptySummaryData)})
       \/ \E period \in {<<"today">>, <<"week">>} :
             SummaryWith([malformed |-> FALSE, period |-> Str(period)], "u1", TRUE,
                         {NoSummaryGen})
       \/ /\ db \in SummaryDbs
          /\ \E period \in {<<"today">>, <<"week">>} :
                SummaryWith([malformed |-> FALSE, period |-> Str(period)], "u1", FALSE,
                            SmallSummaryGens)
       \/ /\ db = Catalogue
          /\ \E period \in {<<"today">>, <<"week">>} :
                SummaryWith([malformed |-> FALSE, period |-> Str(period)], "u1", FALSE,
                            SummaryGens)

InitSummary ==
    /\ apiKey \in BOOLEAN
    /\ today \in Todays
    /\ hour \in Hours
    /\ req = NoReq
    /\ resp = NoResp
    /\ calls = <<>>
    /\ analysis = NoAnalysis
    /\ db \in SummaryDbs \cup Ledgers
    /\ Sequential

NextSummary == Summary \/ Respond

SpecSummary == InitSummary /\ [][NextSummary]_vars

(***************************************************************************)
(* Properties of POST /api/ai/summary.                                     *)
(***************************************************************************)
IsSummary == req.op = "summary"
\* the completion collaborator was called and returned a text
GotText == IsSummary /\ Len(calls) = 4 /\ ~req.gen.throws
IsReport == IsSummary /\ resp.kind = "report"
\* the text is a JSON value as it stands
IsJsonText(toks) == toks \in {<<"o">>, <<"{", "}">>, <<"[]">>, <<"5">>, <<"null">>}
ReportFields ==
    {"summary", "urgentTasks", "remainingTodos", "focusTasks", "completionAnalysis",
     "timeManagement", "productivityPatterns", "insights", "recommendations", "motivation"}

C7_AllFieldsPresent ==
    (IsSummary /\ resp.status = 200) => ReportFields \subseteq DOMAIN resp.body

\* a JSON object whose members include the keys, each with a string value
IsObjectOfStrings(v, keys) ==
    /\ v.t = "obj"
    /\ \A k \in keys : \E i \in 1..Len(v.s) : v.s[i][1] = k /\ v.s[i][2].t = "str"

\* C8: in every report, completionAnalysis, timeManagement,
\* productivityPatterns and motivation are objects carrying their three
\* string fields.
C8_SubObjectsWellTyped ==
    IsReport =>
        /\ IsObjectOfStrings(resp.body.completionAnalysis, {"rate", "trend", "strengths"})
        /\ IsObjectOfStrings(resp.body.timeManagement,
               {"deadlineCompliance", "postponementPattern", "productiveHours"})
        /\ IsObjectOfStrings(resp.body.productivityPatterns,
               {"bestPerformingAreas", "strugglingAreas", "priorityEffectiveness"})
        /\ IsObjectOfStrings(resp.body.motivation,
               {"achievements", "encouragement", "nextSteps"})

\* an array of at least one item, all strings
IsNonEmptyStrings(v) ==
    v.t = "arr" /\ Len(v.s) >= 1 /\ \A i \in 1..Len(v.s) : v.s[i].t = "str"

\* C9: in every report, insights and recommendations each hold at least one
\* string.
C9_ListsNonEmpty ==
    IsReport =>
        /\ IsNonEmptyStrings(resp.body.insights)
        /\ IsNonEmptyStrings(resp.body.recommendations)

(***************************************************************************)
(* PUT /api/todos/[id]: the handler, and the UPDATE it sends to the store  *)
(* (the todos table with its column types, constraints, trigger and row    *)
(* level security).                                                        *)
(***************************************************************************)
\* the NULL of the priority column
NullPriority == 0
\* a path parameter that is not the text of a UUID
BadId == "bad"
\* a UUID no row carries
FreeId == "t9"
StatusValues == {<<"pending">>, <<"completed">>}

\* title !== undefined && (!title || title.trim().length === 0), when it
\* evaluates without a TypeError
TitleRejected(title) ==
    /\ title.t # "absent"
    /\ \/ ~Truthy(title)
       \/ title.t = "str" /\ Len(Trim(title.s)) = 0

\* title.trim() or description?.trim() is called on a value with no trim
PutTypeError(body) ==
    \/ body.title.t # "absent" /\ Truthy(body.title) /\ body.title.t # "str"
    \/ body.description.t \notin {"absent", "null", "str"}

\* UpdateData where status and priority take the defaults of POST when the
\* body leaves them out
UpdateDataDefaulted(body) ==
    [title |-> IF body.title.t = "absent" THEN Absent ELSE Str(Trim(body.title.s)),
     description |->
        IF body.description.t = "absent" THEN Absent
        ELSE IF body.description.t = "str" /\ Len(Trim(body.description.s)) > 0
             THEN Str(Trim(body.description.s)) ELSE Null,
     due_date |-> IF body.due_date.t = "absent" THEN Absent ELSE OrElse(body.due_date, Null),
     status |-> IF body.status.t = "absent" THEN Str(<<"pending">>) ELSE body.status,
     priority |-> IF body.priority.t = "absent" THEN Num(2) ELSE body.priority]

\* updateData: a field is Absent when the body does not supply it
UpdateData(body) ==
    [title |-> IF body.title.t = "absent" THEN Absent ELSE Str(Trim(body.title.s)),
     description |->
        IF body.description.t = "absent" THEN Absent
        ELSE IF body.description.t = "str" /\ Len(Trim(body.description.s)) > 0
             THEN Str(Trim(body.description.s)) ELSE Null,
     due_date |-> IF body.due_date.t = "absent" THEN Absent ELSE OrElse(body.due_date, Null),
     status |-> body.status,
     priority |-> body.priority]

IsEmptyUpdate(u) == \A f \in DOMAIN u : u[f].t = "absent"

\* a text as a TIMESTAMPTZ (session time zone UTC): a calendar date, or the
\* form the store itself returns; ok is FALSE when the input is rejected
PgTimestamp(v) ==
    LET bad == [ok |-> FALSE, ts |-> NullTs]
    IN IF v.t = "str" /\ Len(v.s) \in {10, 25} /\ DateRegexTest(SubSeq(v.s, 1, 10))
       THEN LET y == DigitsValue(SubSeq(v.s, 1, 4))
                m == DigitsValue(SubSeq(v.s, 6, 7))
                dd == DigitsValue(SubSeq(v.s, 9, 10))
                dated == y >= 1 /\ m \in 1..12 /\ dd >= 1 /\ dd <= DaysInMonth(y, m)
            IN IF ~dated THEN bad
               ELSE IF Len(v.s) = 10 THEN [ok |-> TRUE, ts |-> Ts(y, m, dd, 0)]
               ELSE IF \E h \in 0..23 : v.s = FormatTs(Ts(y, m, dd, h))
                    THEN [ok |-> TRUE,
                          ts |-> Ts(y, m, dd, CHOOSE h \in 0..23 : v.s = FormatTs(Ts(y, m, dd, h)))]
                    ELSE bad
       ELSE bad

\* a JSON value as an INTEGER
PgInteger(v) ==
    CASE v.t = "num" /\ v.d = 1 -> [ok |-> TRUE, n |-> v.n]
      [] v.t = "str" /\ AllDigits(v.s) /\ Len(v.s) > 0 -> [ok |-> TRUE, n |-> DigitsValue(v.s)]
      [] OTHER -> [ok |-> FALSE, n |-> 0]

\* the payload holds a value its column's type cannot take
ColumnError(u) ==
    \/ u.status.t \notin {"absent", "null"}
          /\ ~(u.status.t = "str" /\ u.status.s \in StatusValues)
    \/ u.priority.t \notin {"absent", "null"} /\ ~PgInteger(u.priority).ok
    \/ u.due_date.t \notin {"absent", "null"} /\ ~PgTimestamp(u.due_date).ok

\* UpdatedRow where the UPDATE replaces the row: a field the payload leaves
\* out falls back to the default of its column
ReplacedRow(row, u) ==
    [row EXCEPT
        !.title = IF u.title.t = "absent" THEN @ ELSE u.title.s,
        !.description = IF u.description.t = "absent" THEN Null ELSE u.description,
        !.due_date = IF u.due_date.t \in {"absent", "null"} THEN NullTs
                     ELSE PgTimestamp(u.due_date).ts,
        !.status = IF u.status.t = "absent" THEN "pending" ELSE u.status.s[1],
        !.priority = CASE u.priority.t = "absent" -> 2
                       [] u.priority.t = "null" -> NullPriority
                       [] OTHER -> PgInteger(u.priority).n,
        !.updated_at = Now]

\* the row written by the UPDATE; the trigger refreshes updated_at
UpdatedRow(row, u) ==
    [row EXCEPT
        !.title = IF u.title.t = "absent" THEN @ ELSE u.title.s,
        !.description = IF u.description.t = "absent" THEN @ ELSE u.description,
        !.due_date = CASE u.due_date.t = "absent" -> @
                       [] u.due_date.t = "null" -> NullTs
                       [] OTHER -> PgTimestamp(u.due_date).ts,
        !.status = IF u.status.t = "absent" THEN @ ELSE u.status.s[1],
        !.priority = CASE u.priority.t = "absent" -> @
                       [] u.priority.t = "null" -> NullPriority
                       [] OTHER -> PgInteger(u.priority).n,
        !.updated_at = Now]

\* the new row breaks NOT NULL on status or the CHECK on priority
RowError(u) ==
    \/ u.status.t = "null"
    \/ u.priority.t \notin {"absent", "null"} /\ PgInteger(u.priority).n \notin {1, 2, 3}

\* Matching without the owner filter
MatchingAnyOwner(todoId, caller) == {r \in db : r.id = todoId}

\* .eq('id', todoId).eq('user_id', user.id), under the policy "Users can
\* update own todos"
Matching(todoId, caller) == {r \in db : r.id = todoId /\ r.user_id = caller}

\* the whole handler.  early: the store converts the payload to the column
\* types before it looks for the row (the order is the planner's choice);
\* storeFails: the store cannot be reached
PutRun(todoId, caller, body, early, storeFails) ==
    LET keep(r, c) == [resp |-> r, calls |-> c, db |-> db]
        u == UpdateData(body)
        rows == Matching(todoId, caller)
        sent == <<"getUser", "update">>
    IN IF caller = NoUser THEN keep(Err(401, ""), <<"getUser">>)
       ELSE IF body.malformed \/ body.kind = "null" THEN keep(Err(500, ""), <<"getUser">>)
       ELSE IF TitleRejected(body.title) THEN keep(Err(400, ""), <<"getUser">>)
       ELSE IF PutTypeError(body) THEN keep(Err(500, ""), <<"getUser">>)
       ELSE IF storeFails \/ todoId = BadId THEN keep(Err(500, ""), sent)
       ELSE IF IsEmptyUpdate(u) THEN keep(Err(404, ""), sent)
       ELSE IF rows = {} THEN
               IF ColumnError(u) /\ early THEN keep(Err(500, ""), sent)
               ELSE keep(Err(404, ""), sent)
       ELSE IF ColumnError(u) \/ RowError(u) THEN keep(Err(500, ""), sent)
       ELSE LET row == CHOOSE r \in rows : TRUE
                updatedTodo == UpdatedRow(row, u)
            IN [resp |-> Ok("todo", updatedTodo), calls |-> sent,
                db |-> (db \ {row}) \cup {updatedTodo}]

(***************************************************************************)
(* DELETE /api/todos/[id]                                                  *)
(***************************************************************************)
\* the { message } of the deletion confirmation
Deleted == [message |-> "deleted"]

\* the whole handler: the answer of the store carries no count of the rows
\* it deleted, and the handler asks for none
DeleteRun(todoId, caller, storeFails) ==
    IF caller = NoUser
    THEN [resp |-> Err(401, ""), calls |-> <<"getUser">>, db |-> db]
    ELSE IF storeFails \/ todoId = BadId
    THEN [resp |-> Err(500, ""), calls |-> <<"getUser", "delete">>, db |-> db]
    ELSE [resp |-> Ok("deleted", Deleted), calls |-> <<"getUser", "delete">>,
          db |-> db \ Matching(todoId, caller)]

(***************************************************************************)
(* GET /api/todos/[id]                                                     *)
(***************************************************************************)
GetRun(todoId, caller, storeFails) ==
    LET rows == Matching(todoId, caller)
        sent == <<"getUser", "select">>
    IN IF caller = NoUser THEN [resp |-> Err(401, ""), calls |-> <<"getUser">>]
       ELSE IF storeFails \/ todoId = BadId THEN [resp |-> Err(500, ""), calls |-> sent]
       ELSE IF rows = {} THEN [resp |-> Err(404, ""), calls |-> sent]
       ELSE [resp |-> Ok("todo", CHOOSE r \in rows : TRUE), calls |-> sent]

(***************************************************************************)
(* GET /api/todos: the list with its filters and its order.                *)
(***************************************************************************)
TodoColumns ==
    {"id", "user_id", "title", "description", "due_date", "status", "priority", "tags",
     "created_at", "updated_at"}
\* the columns the model orders by; a NULL sorts as the largest value
MaxKey == 2147483647
SortKey(r, column) ==
    CASE column = "created_at" -> TsOrd(r.created_at)
      [] column = "updated_at" -> TsOrd(r.updated_at)
      [] column = "due_date" -> IF r.due_date = NullTs THEN MaxKey ELSE TsOrd(r.due_date)
      [] column = "priority" -> IF r.priority = NullPriority THEN MaxKey ELSE r.priority

RECURSIVE Ordered(_, _, _)
\* .order(column, { ascending }): the orders the store may return the rows
\* in (rows of equal key come in any order)
Ordered(rows, column, ascending) ==
    IF rows = {} THEN {<<>>}
    ELSE LET first == {r \in rows : \A o \in rows :
                          IF ascending THEN SortKey(r, column) <= SortKey(o, column)
                          ELSE SortKey(r, column) >= SortKey(o, column)}
         IN UNION {{<<r>> \o q : q \in Ordered(rows \ {r}, column, ascending)} : r \in first}

\* title ILIKE %search%, for a search text without the wildcards % and _
Contains(text, part) ==
    \E i \in 0..(Len(text) - Len(part)) :
        ToLowerCase(SubSeq(text, i + 1, i + Len(part))) = ToLowerCase(part)

\* parseInt(text): the leading digits, NaN when there are none
ParseInt(text) ==
    LET n == Cardinality({i \in 1..Len(text) : \A j \in 1..i : IsDigit(text[j])})
    IN IF n = 0 THEN NaN ELSE Num(DigitsValue(SubSeq(text, 1, n)))

\* searchParams.get(name) || fallback, for the text <<>> of a missing one
ParamOr(text, fallback) == IF text = <<>> THEN fallback ELSE text

\* the store rejects the query: a status that is not of the enum, a
\* priority that is not an integer, an order by no column of the table
ListError(q) ==
    \/ q.status # <<>> /\ q.status # <<"all">> /\ q.status \notin StatusValues
    \/ q.priority # <<>> /\ q.priority # <<"all">> /\ ParseInt(q.priority).t = "nan"
    \/ ParamOr(q.sortBy, <<"created_at">>)[1] \notin TodoColumns

\* the rows the query selects
Listed(caller, q) ==
    {r \in OwnedBy(caller) :
        /\ q.search = <<>> \/ Contains(r.title, q.search)
        /\ q.status \in {<<>>, <<"all">>} \/ r.status = q.status[1]
        /\ \/ q.priority \in {<<>>, <<"all">>}
           \/ r.priority # NullPriority /\ r.priority = ParseInt(q.priority).n}

\* the whole handler; todos is the answer of the store, one of
\* Ordered(Listed(caller, q), sortBy, sortOrder === 'asc')
ListRun(caller, q, storeFails, todos) ==
    IF caller = NoUser THEN [resp |-> Err(401, ""), calls |-> <<"getUser">>]
    ELSE IF storeFails \/ ListError(q)
    THEN [resp |-> Err(500, ""), calls |-> <<"getUser", "select">>]
    ELSE [resp |-> Ok("list", todos), calls |-> <<"getUser", "select">>]

(***************************************************************************)
(* POST /api/todos                                                         *)
(***************************************************************************)
\* the ids the store generates, in the order it hands them out
NewIds == <<"n1", "n2", "n3">>
Created == {r \in db : \E i \in 1..Len(NewIds) : r.id = NewIds[i]}
FreshId == NewIds[Cardinality(Created) + 1]

\* !title || title.trim().length === 0, when it evaluates without a TypeError
CreateTitleRejected(title) ==
    ~Truthy(title) \/ (title.t = "str" /\ Len(Trim(title.s)) = 0)

\* the object given to insert(); status, priority and tags take their
\* defaults when the body leaves them out
InsertData(body) ==
    [title |-> Str(Trim(body.title.s)),
     description |->
        IF body.description.t = "str" /\ Len(Trim(body.description.s)) > 0
        THEN Str(Trim(body.description.s)) ELSE Null,
     due_date |-> OrElse(body.due_date, Null),
     status |-> IF body.status.t = "absent" THEN Str(<<"pending">>) ELSE body.status,
     priority |-> IF body.priority.t = "absent" THEN Num(2) ELSE body.priority,
     tags |-> IF body.tags.t = "arr" THEN body.tags ELSE Arr(<<>>)]

\* a JSON array of strings as a TEXT[]
TagTexts(tags) == [i \in 1..Len(tags.s) |-> tags.s[i].s]

\* the row the INSERT writes
InsertedRow(caller, u) ==
    [id |-> FreshId, user_id |-> caller, title |-> u.title.s, description |-> u.description,
     due_date |-> IF u.due_date.t = "null" THEN NullTs ELSE PgTimestamp(u.due_date).ts,
     status |-> u.status.s[1],
     priority |-> IF u.priority.t = "null" THEN NullPriority ELSE PgInteger(u.priority).n,
     tags |-> TagTexts(u.tags), created_at |-> Now, updated_at |-> Now]

\* the whole handler
CreateRun(caller, body, storeFails) ==
    LET keep(r, c) == [resp |-> r, calls |-> c, db |-> db]
        u == InsertData(body)
        sent == <<"getUser", "insert">>
    IN IF caller = NoUser THEN keep(Err(401, ""), <<"getUser">>)
       ELSE IF body.malformed \/ body.kind = "null" THEN keep(Err(500, ""), <<"getUser">>)
       ELSE IF CreateTitleRejected(body.title) THEN keep(Err(400, ""), <<"getUser">>)
       ELSE IF body.title.t # "str" \/ body.description.t \notin {"absent", "null", "str"}
       THEN keep(Err(500, ""), <<"getUser">>)
       ELSE IF storeFails \/ ColumnError(u) \/ RowError(u) THEN keep(Err(500, ""), sent)
       ELSE LET newTodo == InsertedRow(caller, u)
            IN [resp |-> [status |-> 201, kind |-> "todo", code |-> "", body |-> newTodo],
                calls |-> sent, db |-> db \cup {newTodo}]

(***************************************************************************)
(* The requests tried on the task routes.                                  *)
(***************************************************************************)
PutBody(title, description, due_date, status, priority, tags) ==
    [malformed |-> FALSE, kind |-> "obj", title |-> title, description |-> description,
     due_date |-> due_date, status |-> status, priority |-> priority, tags |-> tags]
\* a body that is not JSON, and the JSON text null
MalformedPutBody == [PutBody(Absent, Absent, Absent, Absent, Absent, Absent) EXCEPT !.malformed = TRUE]
NullPutBody == [PutBody(Absent, Absent, Absent, Absent, Absent, Absent) EXCEPT !.kind = "null"]

PutTitles == {Null, Str(<<>>), Str(<<" ", " ">>), Str(<<" ", "x", " ">>), Num(5), Num(0)}
PutDescriptions == {Null, Str(<<" ">>), Str(<<" ", "d">>), Num(5)}
PutDueDates == {Null, Str(<<>>), IsoDate(2026, 11, 5), IsoDate(2026, 2, 30), Str(<<"soon">>)}
PutStatuses == {Null, Str(<<"completed">>), Str(<<"in_progress">>)}
PutPriorities == {Null, Num(3), Num(5), Frac(5, 2)}
EditTags == Arr(<<Str(<<"w">>), Str(<<"v">>)>>)

\* one field of the body varies at a time; the last two are the bodies an
\* edit form sends
PutBodies ==
    {MalformedPutBody, NullPutBody, PutBody(Absent, Absent, Absent, Absent, Absent, Absent),
     PutBody(Absent, Absent, Absent, Absent, Absent, EditTags),
     PutBody(Str(<<" ", "x", " ">>), Str(<<" ", "d">>), IsoDate(2026, 11, 5),
             Str(<<"completed">>), Num(3), EditTags),
     PutBody(Str(<<" ">>), Num(5), Absent, Absent, Absent, Absent)}
    \cup {PutBody(t, Absent, Absent, Absent, Absent, Absent) : t \in PutTitles}
    \cup {PutBody(Absent, d, Absent, Absent, Absent, Absent) : d \in PutDescriptions}
    \cup {PutBody(Absent, Absent, d, Absent, Absent, Absent) : d \in PutDueDates}
    \cup {PutBody(Absent, Absent, Absent, v, Absent, Absent) : v \in PutStatuses}
    \cup {PutBody(Absent, Absent, Absent, Absent, v, Absent) : v \in PutPriorities}

SmallPutBodies ==
    {MalformedPutBody,
     PutBody(Absent, Absent, Absent, Str(<<"completed">>), Absent, Absent),
     PutBody(Absent, Absent, Absent, Str(<<"in_progress">>), Absent, Absent)}

TodoIds == {"t1", "t6", NewIds[1], FreeId, BadId}
TodosDbs == {{}, {r \in Catalogue : r.id \in {"t1", "t6"}}}

\* the most rows the requests create in one behaviour
MaxCreated == 1

\* the caller, and whether the store can be reached: every user with a
\* reachable store, and once each a missing session and an unreachable store
Callers ==
    {[caller |-> u, storeFails |-> FALSE] : u \in Users}
    \cup {[caller |-> NoUser, storeFails |-> FALSE], [caller |-> "u1", storeFails |-> TRUE]}

PutWith(todoId, caller, body, early, storeFails) ==
    LET run == PutRun(todoId, caller, body, early, storeFails)
    IN /\ resp' = run.resp
       /\ calls' = run.calls
       /\ db' = run.db
       /\ req' = [op |-> "put", id |-> todoId, caller |-> caller, body |-> body,
                  early |-> early, storeFails |-> storeFails]
       /\ UNCHANGED <<env, concurrent, analysis>>

\* PUT /api/todos/[id]; every body is tried on the initial stores, the small
\* set of bodies on every store
PutTodo ==
    /\ resp = NoResp
    /\ \/ /\ db \in TodosDbs
          /\ \E todoId \in TodoIds, body \in PutBodies :
                PutWith(todoId, "u1", body, FALSE, FALSE)
       \/ \E todoId \in TodoIds, c \in Callers, body \in SmallPutBodies :
             PutWith(todoId, c.caller, body, FALSE, c.storeFails)
       \/ \E todoId \in TodoIds :
             PutWith(todoId, "u1",
                     PutBody(Absent, Absent, Absent, Str(<<"in_progress">>), Absent, Absent),
                     TRUE, FALSE)

\* DELETE /api/todos/[id]
DeleteTodo ==
    /\ resp = NoResp
    /\ \E todoId \in TodoIds, c \in Callers :
          LET run == DeleteRun(todoId, c.caller, c.storeFails)
          IN /\ resp' = run.resp
             /\ calls' = run.calls
             /\ db' = run.db
             /\ req' = [op |-> "delete", id |-> todoId, caller |-> c.caller,
                        storeFails |-> c.storeFails]
             /\ UNCHANGED <<env, concurrent, analysis>>

\* GET /api/todos/[id]
GetTodo ==
    /\ resp = NoResp
    /\ \E todoId \in TodoIds, c \in Callers :
          LET run == GetRun(todoId, c.caller, c.storeFails)
          IN /\ resp' = run.resp
             /\ calls' = run.calls
             /\ req' = [op |-> "get", id |-> todoId, caller |-> c.caller,
                        storeFails |-> c.storeFails]
             /\ UNCHANGED <<env, concurrent, analysis, db>>

NoQuery == [search |-> <<>>, status |-> <<>>, priority |-> <<>>, sortBy |-> <<>>,
            sortOrder |-> <<>>]
\* one parameter at a time, and the list by priority ascending
ListQueries ==
    {NoQuery}
    \cup {[NoQuery EXCEPT !.search = v] : v \in {<<"T">>, <<"x">>}}
    \cup {[NoQuery EXCEPT !.status = v] : v \in {<<"all">>, <<"pending">>, <<"done">>}}
    \cup {[NoQuery EXCEPT !.priority = v] : v \in {<<"all">>, <<"1">>, <<"h", "i">>}}
    \cup {[NoQuery EXCEPT !.sortBy = v] : v \in {<<"due_date">>, <<"rank">>}}
    \cup {[NoQuery EXCEPT !.sortBy = <<"priority">>, !.sortOrder = <<"asc">>]}

\* GET /api/todos
ListTodos ==
    /\ resp = NoResp
    /\ \E c \in Callers, q \in ListQueries :
          LET asked == c.caller # NoUser /\ ~c.storeFails /\ ~ListError(q)
          IN \E todos \in (IF asked
                           THEN Ordered(Listed(c.caller, q),
                                        ParamOr(q.sortBy, <<"created_at">>)[1],
                                        q.sortOrder = <<"asc">>)
                           ELSE {<<>>}) :
                LET run == ListRun(c.caller, q, c.storeFails, todos)
                IN /\ resp' = run.resp
                   /\ calls' = run.calls
                   /\ req' = [op |-> "list", caller |-> c.caller, query |-> q,
                              storeFails |-> c.storeFails]
                   /\ UNCHANGED <<env, concurrent, analysis, db>>

FourTags == Arr(<<Str(<<"a">>), Str(<<"b">>), Str(<<"c">>), Str(<<"d">>)>>)
LooseTags == Arr(<<Str(<<" ", "v", " ">>), Str(<<>>)>>)
PlainTitle == Str(<<" ", "n", " ">>)
PlainCreateBody == PutBody(PlainTitle, Absent, Absent, Absent, Absent, Absent)
\* a body of the shape of the PUT bodies, with the tags POST reads
CreateBodies ==
    {MalformedPutBody, NullPutBody, PlainCreateBody,
     PutBody(Absent, Absent, Absent, Absent, Num(1), Absent),
     PutBody(PlainTitle, Str(<<" ", "d">>), IsoDate(2026, 11, 5), Str(<<"completed">>),
             Num(1), EditTags)}
    \cup {PutBody(t, Absent, Absent, Absent, Absent, Absent) :
             t \in {Str(<<" ">>), Num(5), Null}}
    \cup {PutBody(PlainTitle, d, Absent, Absent, Absent, Absent) : d \in {Null, Num(5)}}
    \cup {PutBody(PlainTitle, Absent, d, Absent, Absent, Absent) :
             d \in {Null, IsoDate(2026, 2, 30)}}
    \cup {PutBody(PlainTitle, Absent, Absent, v, Absent, Absent) :
             v \in {Null, Str(<<"in_progress">>)}}
    \cup {PutBody(PlainTitle, Absent, Absent, Absent, v, Absent) :
             v \in {Null, Num(0), Num(3), Num(5), Frac(5, 2)}}
    \cup {PutBody(PlainTitle, Absent, Absent, Absent, Absent, v) :
             v \in {Null, Str(<<"w">>), FourTags, LooseTags}}

CreateWith(caller, body, storeFails) ==
    LET run == CreateRun(caller, body, storeFails)
    IN /\ resp' = run.resp
       /\ calls' = run.calls
       /\ db' = run.db
       /\ req' = [op |-> "create", caller |-> caller, body |-> body,
                  storeFails |-> storeFails]
       /\ UNCHANGED <<env, concurrent, analysis>>

\* POST /api/todos; every body is tried on the initial stores, the plain
\* body on every store
CreateTodo ==
    /\ resp = NoResp
    /\ Cardinality(Created) < MaxCreated
    /\ \/ /\ db \in TodosDbs
          /\ \E body \in CreateBodies : CreateWith("u1", body, FALSE)
       \/ \E c \in Callers : CreateWith(c.caller, PlainCreateBody, c.storeFails)

InitTodos ==
    /\ apiKey \in BOOLEAN
    /\ today \in Todays
    /\ hour \in Hours
    /\ req = NoReq
    /\ resp = NoResp
    /\ calls = <<>>
    /\ analysis = NoAnalysis
    /\ db \in TodosDbs
    /\ Sequential

NextTodos ==
    PutTodo \/ DeleteTodo \/ GetTodo \/ ListTodos \/ CreateTodo \/ Summary \/ Respond

SpecTodos == InitTodos /\ [][NextTodos]_vars

(***************************************************************************)
(* Properties of PUT /api/todos/[id].                                      *)
(***************************************************************************)
\* the request now answered is a PUT by an authenticated caller on an id
\* that no row of the caller's carried when it arrived
PutMisses ==
    /\ resp = NoResp
    /\ req'.op = "put"
    /\ req'.caller # NoUser
    /\ ~\E r \in db : r.id = req'.id /\ r.user_id = req'.caller

\* the body is a JSON object whose title is present and null, empty or blank
HasBlankTitle(b) ==
    /\ ~b.malformed /\ b.kind = "obj"
    /\ b.title.t = "null" \/ (b.title.t = "str" /\ \A i \in 1..Len(b.title.s) : IsSpace(b.title.s[i]))

\* the body is a JSON object supplying at least one field, each of a value
\* its column can hold: the title a string that is not blank, the
\* description a string or null, the due date null, empty or a calendar
\* date, the status pending or completed, the priority an integer
IsPlainBody(b) ==
    /\ ~b.malformed /\ b.kind = "obj"
    /\ \E f \in {"title", "description", "due_date", "status", "priority"} : b[f].t # "absent"
    /\ b.title.t = "absent"
          \/ (b.title.t = "str" /\ \E i \in 1..Len(b.title.s) : ~IsSpace(b.title.s[i]))
    /\ b.description.t \in {"absent", "null", "str"}
    /\ b.due_date \in {Absent, Null, Str(<<>>), IsoDate(2026, 11, 5)}
    /\ b.status \in {Absent, Str(<<"pending">>), Str(<<"completed">>)}
    /\ b.priority.t = "absent" \/ (b.priority.t = "num" /\ b.priority.d = 1)

\* C10 as claimed: a PUT by an authenticated user on an id that does not
\* exist or belongs to another user returns 404 and leaves every row
\* unchanged.
C10_MissReturns404 == [][PutMisses => (resp'.status = 404 /\ db' = db)]_vars

\* C10 as amended: such a PUT never succeeds and leaves every row unchanged;
\* it returns 400 when the title is present and null, empty or blank, 404
\* when the store is reachable, the id is a UUID and the body supplies
\* values the columns can hold, and 400, 404 or 500 in every other case.
C10_MissNeverUpdates ==
    [][PutMisses =>
          /\ db' = db
          /\ resp'.status \in {400, 404, 500}
          /\ HasBlankTitle(req'.body) => resp'.status = 400
          /\ (IsPlainBody(req'.body) /\ req'.id # BadId /\ ~req'.storeFails)
                => resp'.status = 404]_vars

\* C10 witness: the first user's PUT on the second user's row was answered
\* 404
C10_Witness ==
    /\ req.op = "put"
    /\ req.caller = "u1"
    /\ req.id = "t6"
    /\ req.body.status = Str(<<"completed">>)
    /\ \E r \in db : r.id = "t6" /\ r.user_id = "u2" /\ r.status = "pending"
    /\ resp.status = 404

(***************************************************************************)
(* Properties of DELETE /api/todos/[id].                                   *)
(***************************************************************************)
\* the request now answered is a DELETE by an authenticated caller, sent to a
\* reachable store, on a UUID that no row of the caller's carried when it
\* arrived
DeleteMisses ==
    /\ resp = NoResp
    /\ req'.op = "delete"
    /\ req'.caller # NoUser
    /\ req'.id # BadId /\ ~req'.storeFails
    /\ ~\E r \in db : r.id = req'.id /\ r.user_id = req'.caller

\* C11: a DELETE by an authenticated user on an id that does not exist or
\* belongs to another user returns 404, not a deletion confirmation, and
\* removes no row.
C11_MissReturns404 ==
    [][DeleteMisses => (resp'.status = 404 /\ resp'.kind # "deleted" /\ db' = db)]_vars

(***************************************************************************)
(* C12: the rows of a user are out of reach of every other caller.         *)
(***************************************************************************)
\* the items of a list
Range(q) == {q[i] : i \in 1..Len(q)}

\* a request is answered in this step
Answers == resp = NoResp /\ resp' # NoResp
TaskOps == {"list", "create", "get", "put", "delete"}

\* the rows the answered request read from the store or returns
RowsReturned ==
    IF req'.op = "summary" THEN Range(req'.todos) \cup Range(req'.previousTodos)
    ELSE IF resp'.kind = "todo" THEN {resp'.body}
    ELSE IF resp'.kind = "list" THEN Range(resp'.body)
    ELSE {}

\* no row of another user is returned, changed or deleted, and every row the
\* request leaves new in the store is the caller's
KeepsToCaller ==
    /\ \A r \in RowsReturned : r.user_id = req'.caller
    /\ \A r \in db : r.user_id # req'.caller => r \in db'
    /\ \A r \in db' \ db : r.user_id = req'.caller
    /\ (resp'.status = 201 => resp'.body \in db' /\ resp'.body.user_id = req'.caller)

\* an unauthenticated request reads and changes nothing
Untouched ==
    /\ db' = db
    /\ RowsReturned = {}
    /\ calls' \in {<<>>, <<"getUser">>}

\* the summary route reaches its session check
ReachesSession == apiKey /\ ~req'.body.malformed /\ IsPeriod(req'.body.period)

\* C12: as stated: after any sequence of task and summary requests no request
\* of a user returns, modifies or deletes a row of another, every created row
\* is the caller's, and every unauthenticated request is answered 401 without
\* reading or changing a row.
C12_UnauthenticatedAlways401 ==
    [][Answers => /\ KeepsToCaller
                  /\ (req'.caller = NoUser => resp'.status = 401 /\ Untouched)]_vars

\* C12: amended: the same, where an unauthenticated request is answered 401
\* on the task routes and on the summary route once the API key, the body and
\* the period have passed; before that the summary route answers 500 or 400.
C12_RowsKeptToCaller ==
    [][Answers => /\ KeepsToCaller
                  /\ (req'.caller = NoUser =>
                         /\ Untouched
                         /\ (req'.op \in TaskOps => resp'.status = 401)
                         /\ (req'.op = "summary" /\ ReachesSession => resp'.status = 401)
                         /\ (req'.op = "summary" /\ ~ReachesSession =>
                                resp'.status \in {400, 500} /\ calls' = <<>>))]_vars

\* u1 has listed the tasks of a store that holds a row of u2 and one of u1
C12_Witness ==
    /\ req.op = "list"
    /\ req.caller = "u1"
    /\ resp.kind = "list"
    /\ Len(resp.body) = 1
    /\ \E r \in db : r.user_id = "u2"

(***************************************************************************)
(* C13: what the successful POST and PUT requests leave in the store.      *)
(***************************************************************************)
IsTrimmed(text) == Len(text) > 0 /\ Trim(text) = text

ValidTask(r) ==
    /\ IsTrimmed(r.title)
    /\ r.priority \in {1, 2, 3}
    /\ Len(r.tags) <= MaxTags
    /\ \A i \in 1..Len(r.tags) : IsTrimmed(r.tags[i])

\* a POST or a PUT is answered with the row it stored
Stores == Answers /\ req'.op \in {"create", "put"} /\ resp'.kind = "todo"

\* C13: after any sequence of successful POST and PUT requests every task
\* they stored has a trimmed non-empty title, a priority of 1, 2 or 3, and at
\* most three tags, each trimmed and non-empty.
C13_StoredTasksValid ==
    [][Stores => resp'.body \in db' /\ ValidTask(resp'.body)]_vars

(***************************************************************************)
(* C14: the focus tasks of a report.                                       *)
(***************************************************************************)
\* the fetched rows a listed item stands for
RowsOf(item) == {r \in Range(req.todos) : TodoItem(r) = item}

\* the due date of the row falls on the current date
DueOnToday(r) ==
    /\ r.due_date # NullTs
    /\ r.due_date.y = today.y /\ r.due_date.m = today.m /\ r.due_date.d = today.d

\* C14: focusTasks has at most five entries, every entry is a pending task,
\* and a pending task due today stands before every listed task of the same
\* priority that is not due today.
C14_FocusTasksOrdered ==
    IsReport =>
        LET focus == resp.body.focusTasks
        IN /\ Len(focus) <= FocusLimit
           /\ \A i \in 1..Len(focus) :
                 RowsOf(focus[i]) # {} /\ \A r \in RowsOf(focus[i]) : IsPending(r)
           /\ \A i, j \in 1..Len(focus) :
                 (/\ focus[i].priority = focus[j].priority
                  /\ \E r \in RowsOf(focus[i]) : DueOnToday(r)
                  /\ \E r \in RowsOf(focus[j]) : ~DueOnToday(r)) => i < j

(***************************************************************************)
(* C15: the remaining tasks of a report.                                   *)
(***************************************************************************)
\* the pending rows of the current window, as fetched
FetchedPending == SelectSeq(req.todos, IsPending)

\* the place of the k-th fetched pending row in the list: behind every row of
\* a lower priority number and every earlier fetched row of the same priority
PlaceOf(k) ==
    1 + Cardinality({j \in 1..Len(FetchedPending) :
                        \/ FetchedPending[j].priority < FetchedPending[k].priority
                        \/ /\ FetchedPending[j].priority = FetchedPending[k].priority
                           /\ j < k})

\* C15: remainingTodos holds exactly the pending tasks of the window, by
\* priority ascending, and tasks of equal priority in the order fetched.
C15_RemainingTodosSorted ==
    IsReport =>
        LET remaining == resp.body.remainingTodos
        IN /\ Len(remaining) = Len(FetchedPending)
           /\ \A k \in 1..Len(FetchedPending) :
                 remaining[PlaceOf(k)] = TodoItem(FetchedPending[k])
           /\ \A i, j \in 1..Len(remaining) :
                 i < j => remaining[i].priority <= remaining[j].priority

\* a report over a window whose pending tasks were fetched out of priority
\* order, two of them with the same priority
C15_Witness ==
    /\ IsReport
    /\ Len(resp.body.remainingTodos) >= 3
    /\ resp.body.remainingTodos[1].priority = resp.body.remainingTodos[2].priority
    /\ \E i \in 1..(Len(FetchedPending) - 1) :
          FetchedPending[i].priority > FetchedPending[i + 1].priority

(***************************************************************************)
(* C16: the completion rates.                                              *)
(***************************************************************************)
\* the summary request went on to compute the analysis data
HasAnalysis == IsSummary /\ analysis # NoAnalysis

\* 100 * part / whole rounded half up, and 0 of nothing
HalfUpPercent(part, whole) ==
    IF whole = 0 THEN 0
    ELSE CHOOSE k \in 0..100 : 2 * whole * k <= 200 * part + whole
                               /\ 200 * part + whole < 2 * whole * (k + 1)

\* C16: completionRate is the integer 100 * completed / total of the current
\* window rounded half up, 0 when the window is empty, always within 0..100;
\* previousCompletionRate is the same over the previous window.
C16_CompletionRateHalfUp ==
    HasAnalysis =>
        /\ analysis.completionRate
              = HalfUpPercent(Count(req.todos, IsCompleted), Len(req.todos))
        /\ analysis.previousCompletionRate
              = HalfUpPercent(Count(req.previousTodos, IsCompleted), Len(req.previousTodos))
        /\ analysis.completionRate \in 0..100
        /\ analysis.previousCompletionRate \in 0..100

(***************************************************************************)
(* C17: the deadline compliance rate.                                      *)
(***************************************************************************)
\* the completed rows of the current window
FetchedCompleted == SelectSeq(req.todos, IsCompleted)

\* completed without a due date, or last updated no later than the due date
KeptDeadline(r) ==
    \/ r.due_date = NullTs
    \/ TsOrd(r.updated_at) <= TsOrd(r.due_date)

\* k is 100 * part / whole rounded to an integer
IsRoundedPercent(k, part, whole) ==
    /\ 2 * (k * whole - 100 * part) <= whole
    /\ 2 * (100 * part - k * whole) <= whole

\* C17: deadlineComplianceRate is computed over the completed tasks only: it
\* is the rounded percentage of the completed tasks that have no due date or
\* were last updated no later than their due date, and the pending tasks of
\* the window never change it.
C17_DeadlineComplianceOverCompleted ==
    HasAnalysis =>
        /\ Len(FetchedCompleted) > 0 =>
              IsRoundedPercent(analysis.deadlineComplianceRate,
                               Count(FetchedCompleted, KeptDeadline), Len(FetchedCompleted))
        /\ analysis.deadlineComplianceRate
              = AnalysisData(PeriodName(req.body.period), FetchedCompleted,
                             req.previousTodos).deadlineComplianceRate

\* an analysis of a window with pending tasks and with completed tasks of
\* which some kept their deadline and some did not
C17_Witness ==
    /\ HasAnalysis
    /\ analysis.pendingTasks > 0
    /\ analysis.deadlineComplianceRate \in 1..99
    /\ \E i \in 1..Len(req.todos) : IsPending(req.todos[i]) /\ ~KeptDeadline(req.todos[i])

(***************************************************************************)
(* C18: the summary of a window without tasks.                             *)
(***************************************************************************)
\* the summary request of a signed-in caller passed the API key, the body and
\* the period, the store answered, and the caller has no task created or due
\* in the current window
EmptyWindow ==
    /\ IsSummary
    /\ apiKey /\ ~req.body.malformed /\ IsPeriod(req.body.period)
    /\ req.caller # NoUser /\ ~req.storeFails
    /\ LET w == Windows(PeriodName(req.body.period))
       IN \A r \in db : r.user_id = req.caller => ~InWindow(r, w.currentStart, w.currentEnd)

\* C18: when the current window holds no tasks the summary request answers
\* with the canned no-tasks response of its period, today or week, without an
\* error, without calling the completion collaborator and without computing
\* any metric.
C18_EmptyWindowCanned ==
    EmptyWindow =>
        /\ resp.status = 200
        /\ resp.kind = "canned"
        /\ resp.body.summary =
              (IF req.body.period.s = <<"today">>
               THEN Str(<<"oneul deungrokdoen hal il-i eopseumnida">>)
               ELSE Str(<<"ibeon ju deungrokdoen hal il-i eopseumnida">>))
        /\ resp.body.urgentTasks = Arr(<<>>)
        /\ Len(resp.body.insights.s) = 1 /\ Len(resp.body.recommendations.s) = 1
        /\ calls = <<"getUser", "query", "query">>
        /\ analysis = NoAnalysis

\* the week of a store that holds tasks, none of them the caller's
C18_Witness ==
    /\ EmptyWindow
    /\ req.body.period.s = <<"week">>
    /\ resp.kind = "canned"
    /\ db # {}

(***************************************************************************)
(* The two AI endpoints together.                                          *)
(***************************************************************************)
InitAi ==
    /\ apiKey \in BOOLEAN
    /\ today \in Todays
    /\ hour \in Hours
    /\ req = NoReq
    /\ resp = NoResp
    /\ calls = <<>>
    /\ analysis = NoAnalysis
    /\ db = Catalogue
    /\ Sequential

NextAi == ParseTodo \/ Summary \/ Respond

SpecAi == InitAi /\ [][NextAi]_vars

(***************************************************************************)
(* C19: validation comes before every network call.                        *)
(***************************************************************************)
\* a parse request with a readable body whose input fails validation
InvalidInput ==
    /\ req.op = "parse"
    /\ ~req.body.malformed
    /\ \/ ~Truthy(req.body.input)
       \/ req.body.input.t # "str"
       \/ ~validateInput(req.body.input).isValid

\* a summary request with a readable body whose period is not today or week
InvalidPeriod ==
    /\ req.op = "summary"
    /\ ~req.body.malformed
    /\ \/ req.body.period.t # "str"
       \/ req.body.period.s \notin {<<"today">>, <<"week">>}

ValidationCodes ==
    {"MISSING_INPUT", "EMPTY_INPUT", "INVALID_CONTENT", "TOO_SHORT", "TOO_LONG"}

\* C19: as stated: a parse request whose input fails validation never calls
\* the completion collaborator, a summary request whose period is not today
\* or week calls neither the session check, nor the store, nor the
\* collaborator, and the response is the 400 with its code.
C19_InvalidAlways400 ==
    /\ InvalidInput =>
          calls = <<>> /\ resp.status = 400 /\ resp.code \in ValidationCodes
    /\ InvalidPeriod =>
          calls = <<>> /\ resp.status = 400 /\ resp.code = "INVALID_PERIOD"

\* C19: amended: no call is made in either case; the response is the 400
\* with its code when the API key is configured, and the 500 of the missing
\* API key, without a code, when it is not.
C19_ValidationBeforeCalls ==
    /\ InvalidInput =>
          /\ calls = <<>>
          /\ IF apiKey THEN resp.status = 400 /\ resp.code \in ValidationCodes
             ELSE resp.status = 500 /\ resp.code = ""
    /\ InvalidPeriod =>
          /\ calls = <<>>
          /\ analysis = NoAnalysis
          /\ IF apiKey THEN resp.status = 400 /\ resp.code = "INVALID_PERIOD"
             ELSE resp.status = 500 /\ resp.code = ""

\* a signed-in caller asked for the summary of a period that is a text other
\* than today and week, and was answered 400
C19_Witness ==
    /\ InvalidPeriod
    /\ req.body.period.t = "str"
    /\ req.caller # NoUser
    /\ resp.code = "INVALID_PERIOD"

(***************************************************************************)
(* C20: the classification of a failed completion call.                    *)
(***************************************************************************)
\* the completion call of the request failed
CallFailed == req.op \in {"parse", "summary"} /\ req.gen.throws
Mentions(words) == \E w \in words : Includes(req.gen.msg, w)
QuotaWords == {"quota", "rate limit", "429"}
AuthWords == {"API_KEY", "authentication", "401"}
NetworkWords == {"network", "timeout", "fetch"}

\* C20: on both AI endpoints a failure of the completion call is classified
\* by its error text into one response: quota, rate limit or 429 gives 429
\* RATE_LIMIT_EXCEEDED; API key, authentication or 401 gives 401
\* AUTHENTICATION_FAILED; network, timeout or fetch gives a network-error
\* response that is not the generic one; any other text gives 500
\* INTERNAL_ERROR.  Texts of two classes are left out of the statement.
C20_FailureClassified ==
    CallFailed =>
        /\ (Mentions(QuotaWords) /\ ~Mentions(AuthWords) /\ ~Mentions(NetworkWords)) =>
              resp = Err(429, "RATE_LIMIT_EXCEEDED")
        /\ (Mentions(AuthWords) /\ ~Mentions(QuotaWords) /\ ~Mentions(NetworkWords)) =>
              resp = Err(401, "AUTHENTICATION_FAILED")
        /\ (Mentions(NetworkWords) /\ ~Mentions(QuotaWords) /\ ~Mentions(AuthWords)) =>
              resp.status = 500 /\ resp.code = "NETWORK_ERROR"
        /\ ~Mentions(QuotaWords \cup AuthWords \cup NetworkWords) =>
              resp = Err(500, "INTERNAL_ERROR")

(***************************************************************************)
(* Concurrent PUT requests of one user on one task.  A handler reads its   *)
(* request, validates it and prepares updateData without touching the      *)
(* store; its one access to the store is the UPDATE statement, which the   *)
(* store executes atomically.                                              *)
(***************************************************************************)
RaceId == "t1"
RaceUser == "u1"
RaceBodies ==
    {PutBody(Str(<<" ", "x", " ">>), Absent, Absent, Absent, Absent, Absent),
     PutBody(Str(<<"y">>), Absent, Absent, Str(<<"completed">>), Absent, Absent),
     PutBody(Absent, Absent, Absent, Str(<<"completed">>), Absent, Absent),
     PutBody(Absent, Absent, Absent, Str(<<"pending">>), Num(3), Absent),
     PutBody(Absent, Absent, IsoDate(2026, 11, 5), Absent, Num(2), Absent),
     PutBody(Str(<<" ">>), Absent, Absent, Str(<<"completed">>), Absent, Absent),
     PutBody(Absent, Absent, Absent, Str(<<"in_progress">>), Num(3), Absent)}

\* the requests received so far
Begun == Cardinality(pending) + Len(log)

\* a request arrives and its handler runs up to the UPDATE it awaits; a
\* handler that returns before the UPDATE is complete at once
RaceBegin ==
    /\ Begun < MaxPuts
    /\ \E body \in RaceBodies :
          LET run == PutRun(RaceId, RaceUser, body, FALSE, FALSE)
              slot == Begun + 1
          IN IF run.calls = <<"getUser">>
             THEN /\ log' = Append(log, [slot |-> slot, body |-> body, resp |-> run.resp,
                                         sent |-> FALSE])
                  /\ UNCHANGED pending
             ELSE /\ pending' = pending \cup {[op |-> "put", slot |-> slot, body |-> body]}
                  /\ UNCHANGED log
    /\ UNCHANGED <<env, req, resp, calls, analysis, db, auth, route, hook>>

\* the store executes the UPDATE of one of the handlers in flight, and the
\* handler answers with its outcome
RaceApply ==
    /\ \E p \in pending :
          LET run == PutRun(RaceId, RaceUser, p.body, FALSE, FALSE)
          IN /\ db' = run.db
             /\ pending' = pending \ {p}
             /\ log' = Append(log, [slot |-> p.slot, body |-> p.body, resp |-> run.resp,
                                    sent |-> TRUE])
    /\ UNCHANGED <<env, req, resp, calls, analysis, auth, route, hook>>

InitRace ==
    /\ apiKey = TRUE
    /\ today \in Todays
    /\ hour \in Hours
    /\ req = NoReq
    /\ resp = NoResp
    /\ calls = <<>>
    /\ analysis = NoAnalysis
    /\ db = {r \in Catalogue : r.id \in {"t1", "t6"}}
    /\ auth = NoAuth
    /\ route = NoRoute
    /\ hook = NoHook
    /\ pending = {}
    /\ log = <<>>

NextRace == RaceBegin \/ RaceApply

SpecRace == InitRace /\ [][NextRace]_vars

(***************************************************************************)
(* C21: concurrent PUT requests are last-write-wins.                       *)
(***************************************************************************)
\* every request received has been answered
AllAnswered == pending = {} /\ Len(log) > 0

\* the row of the task as it was before the requests, and as it is now
RowBefore == CHOOSE r \in Catalogue : r.id = RaceId
RowNow == CHOOSE r \in db : r.id = RaceId

\* the status a request gets when it is the only one: 400 for the blank
\* title, 500 for a status outside the enumeration
StatusAlone(body) ==
    IF body.title.t = "str" /\ Trim(body.title.s) = <<>> THEN 400
    ELSE IF body.status.t = "str" /\ body.status.s \notin {<<"pending">>, <<"completed">>}
    THEN 500
    ELSE 200

\* the value a body gives to a field of the row
GivenValue(body, field) ==
    CASE field = "title" -> Trim(body.title.s)
      [] field = "status" -> body.status.s[1]
      [] field = "priority" -> body.priority.n
      [] field = "due_date" -> Ts(2026, 11, 5, 0)

\* the applied updates, by their place in the log, that supplied the field
Suppliers(field) ==
    {i \in 1..Len(log) : log[i].resp.status = 200 /\ log[i].body[field].t # "absent"}

LastValue(field) ==
    IF Suppliers(field) = {} THEN RowBefore[field]
    ELSE GivenValue(log[CHOOSE i \in Suppliers(field) : \A j \in Suppliers(field) : j <= i].body,
                    field)

(***************************************************************************)
(* The client: AuthProvider and ProtectedRoute.  The state setters of one  *)
(* synchronous segment are batched into one commit; an await ends the      *)
(* segment and its continuation is an operation in flight.  The effects of *)
(* a commit run before the next event is handled.                          *)
(***************************************************************************)
NoProfile == "noprofile"
redirectTo == "/login"

RenderedAfterLoading(a) == IF a.isLoading THEN "fallback" ELSE "children"

\* ProtectedRoute's render
Rendered(a) ==
    IF a.isLoading THEN "fallback"
    ELSE IF a.user = NoUser THEN "null"
    ELSE "children"

InFlight(op, user, n) == [op |-> op, user |-> user, n |-> n]
Push(path, by) == [op |-> "push", path |-> path, by |-> by]
Toast(by) == [op |-> "toast", path |-> "", by |-> by]

Events == {p \in pending : p.op = "event"}
ProfileFetches == {p \in pending : p.op \in {"profile.session", "profile.event", "profile.signIn"}}
EffectsDone == route.effectDue = FALSE

\* one commit of AuthProvider: ProtectedRoute renders again with the new
\* state, and its effect is due when user or isLoading changed (a user
\* object that was set is a new object)
Commit(next, userSet) ==
    /\ auth' = next
    /\ route' = [shown |-> Rendered(next),
                 effectDue |-> \/ userSet /\ next.user # NoUser
                               \/ next.user # auth.user
                               \/ next.isLoading # auth.isLoading]

\* the effect of ProtectedRoute
RouteEffect ==
    /\ route.effectDue
    /\ route' = [route EXCEPT !.effectDue = FALSE]
    /\ log' = IF ~auth.isLoading /\ auth.user = NoUser
              THEN Append(log, Push(redirectTo, "ProtectedRoute"))
              ELSE log
    /\ UNCHANGED <<env, req, resp, calls, analysis, db, auth, hook, pending>>

\* getSession().then(...) of the mount effect
SessionChecked ==
    /\ EffectsDone
    /\ \E p \in pending :
        /\ p.op = "getSession"
        /\ IF auth.session # NoUser
           THEN /\ Commit([auth EXCEPT !.user = auth.session, !.isLoading = FALSE], TRUE)
                /\ pending' = (pending \ {p})
                                  \cup {InFlight("profile.session", auth.session, 0)}
           ELSE /\ Commit([auth EXCEPT !.isLoading = FALSE], FALSE)
                /\ pending' = pending \ {p}
    /\ UNCHANGED <<env, req, resp, calls, analysis, db, hook, log>>

\* signIn(): the session is made and the SIGNED_IN event emitted, then the
\* profile is fetched
signIn ==
    /\ EffectsDone
    /\ auth.signs < MaxSigns
    /\ auth.session = NoUser
    /\ \E u \in Users :
        /\ auth' = [auth EXCEPT !.session = u, !.signs = auth.signs + 1]
        /\ pending' = pending \cup {InFlight("event", u, auth.signs + 1),
                                    InFlight("profile.signIn", u, auth.signs + 1)}
    /\ UNCHANGED <<env, req, resp, calls, analysis, db, route, hook, log>>

\* signOut() up to its await: the session ends and SIGNED_OUT is emitted,
\* or the call fails and only a toast is shown
signOut ==
    /\ EffectsDone
    /\ auth.signs < MaxSigns
    /\ auth.session # NoUser
    /\ \E failed \in BOOLEAN :
        IF failed
        THEN /\ auth' = [auth EXCEPT !.signs = auth.signs + 1]
             /\ log' = Append(log, Toast("signOut"))
             /\ UNCHANGED pending
        ELSE /\ auth' = [auth EXCEPT !.session = NoUser, !.signs = auth.signs + 1]
             /\ pending' = pending \cup {InFlight("event", NoUser, auth.signs + 1),
                                         InFlight("signOut", NoUser, auth.signs + 1)}
             /\ UNCHANGED log
    /\ UNCHANGED <<env, req, resp, calls, analysis, db, route, hook>>

\* signOut() after its await
SignedOut ==
    /\ EffectsDone
    /\ \E p \in pending :
        /\ p.op = "signOut"
        /\ Commit([auth EXCEPT !.user = NoUser, !.profile = NoProfile], TRUE)
        /\ pending' = pending \ {p}
        /\ log' = Append(log, Push("/login", "signOut"))
    /\ UNCHANGED <<env, req, resp, calls, analysis, db, hook>>

\* the onAuthStateChange callback up to its await; events are delivered
\* in the order they were emitted
AuthStateChange ==
    /\ EffectsDone
    /\ \E e \in Events :
        /\ \A o \in Events : e.n <= o.n
        /\ IF e.user # NoUser
           THEN /\ Commit([auth EXCEPT !.user = e.user], TRUE)
                /\ pending' = (pending \ {e}) \cup {InFlight("profile.event", e.user, e.n)}
           ELSE /\ Commit([auth EXCEPT !.user = NoUser, !.profile = NoProfile,
                                       !.isLoading = FALSE], TRUE)
                /\ pending' = pending \ {e}
    /\ UNCHANGED <<env, req, resp, calls, analysis, db, hook, log>>

\* a fetchProfile answers, with the profile or with null, and the code
\* after it runs
ProfileFetched ==
    /\ EffectsDone
    /\ \E p \in ProfileFetches, found \in BOOLEAN :
        LET userProfile == IF found THEN p.user ELSE NoProfile
        IN  /\ pending' = pending \ {p}
            /\ CASE p.op = "profile.session" ->
                        Commit([auth EXCEPT !.profile = userProfile], FALSE)
                 [] p.op = "profile.event" ->
                        Commit([auth EXCEPT !.profile = userProfile,
                                            !.isLoading = FALSE], FALSE)
                 [] OTHER ->
                        Commit([auth EXCEPT !.user = p.user,
                                            !.profile = userProfile], TRUE)
    /\ UNCHANGED <<env, req, resp, calls, analysis, db, hook, log>>

InitAuth ==
    /\ apiKey = TRUE
    /\ today = [y |-> 2026, m |-> 11, d |-> 3]
    /\ hour \in Hours
    /\ req = NoReq
    /\ resp = NoResp
    /\ calls = <<>>
    /\ analysis = NoAnalysis
    /\ db = {}
    /\ auth \in {[session |-> u, user |-> NoUser, profile |-> NoProfile,
                  isLoading |-> TRUE, signs |-> 0] : u \in Users \cup {NoUser}}
    /\ route = [shown |-> "fallback", effectDue |-> TRUE]
    /\ hook = NoHook
    /\ pending = {InFlight("getSession", NoUser, 0)}
    /\ log = <<>>

NextAuth ==
    \/ RouteEffect
    \/ SessionChecked
    \/ signIn
    \/ signOut
    \/ SignedOut
    \/ AuthStateChange
    \/ ProfileFetched

SpecAuth == InitAuth /\ [][NextAuth]_vars

(***************************************************************************)
(* The client: useTodos, for the signed-in user u1.  A fetch is an         *)
(* operation in flight from its request to the code after its await; the   *)
(* answers arrive in any order.                                            *)
(***************************************************************************)
HookUser == "u1"
DefaultFilter ==
    [status |-> "all", priority |-> "all", search |-> <<>>, sortBy |-> "created_at",
     sortOrder |-> "desc"]

\* the query parameters fetchTodos builds from a filter
FilterParams(f) ==
    [search |-> f.search,
     status |-> IF f.status # "all" THEN <<f.status>> ELSE <<>>,
     priority |-> IF f.priority # "all" THEN <<f.priority>> ELSE <<>>,
     sortBy |-> <<f.sortBy>>,
     sortOrder |-> <<f.sortOrder>>]

\* the lists GET /api/todos can answer for a filter
ListsFor(f) ==
    Ordered(Listed(HookUser, FilterParams(f)), f.sortBy, f.sortOrder = "asc")

ListFetch(f, n) == [op |-> "list", n |-> n, filter |-> f, id |-> "", status |-> ""]
PutFetch(id, status, n) ==
    [op |-> "put", n |-> n, filter |-> DefaultFilter, id |-> id, status |-> status]
ListFetches == {p \in pending : p.op = "list"}
PutFetches == {p \in pending : p.op = "put"}
\* requests alike are told apart by a number
FreeSlot(like(_)) ==
    CHOOSE n \in 1..(Cardinality(pending) + 1) :
        /\ like(n) \notin pending
        /\ \A k \in 1..(n - 1) : like(k) \in pending

\* fetchTodos(currentFilter) up to its await
fetchTodos(h, f) ==
    /\ hook' = [h EXCEPT !.isLoading = TRUE]
    /\ LET like(n) == ListFetch(f, n)
       IN pending' = pending \cup {like(FreeSlot(like))}

\* the effect on [user, fetchTodos]: a user is signed in, so fetchTodos()
\* with the filter of the render
HookEffect ==
    /\ hook.effectDue
    /\ fetchTodos([hook EXCEPT !.effectDue = FALSE], hook.filter)
    /\ UNCHANGED <<env, req, resp, calls, analysis, db, auth, route, log>>

\* updateFilter(newFilter), called by updateStatusFilter and
\* updatePriorityFilter; the new filter makes a new fetchTodos, so the
\* effect is due again
updateFilter ==
    /\ hook.effectDue = FALSE
    /\ hook.changes < MaxChanges
    /\ \E newFilter \in {[status |-> v] : v \in {"all", "pending", "completed"}}
                        \cup {[priority |-> v] : v \in {"all", "1"}} :
          LET updatedFilter ==
                  [k \in DOMAIN hook.filter |->
                      IF k \in DOMAIN newFilter THEN newFilter[k] ELSE hook.filter[k]]
          IN fetchTodos([hook EXCEPT !.filter = updatedFilter, !.effectDue = TRUE,
                                     !.changes = hook.changes + 1],
                        updatedFilter)
    /\ UNCHANGED <<env, req, resp, calls, analysis, db, auth, route, log>>

\* the answer of a list request and the rest of fetchTodos
TodosFetched ==
    /\ hook.effectDue = FALSE
    /\ \E p \in ListFetches, storeFails \in BOOLEAN :
          \E data \in (IF storeFails THEN {<<>>} ELSE ListsFor(p.filter)) :
             LET run == ListRun(HookUser, FilterParams(p.filter), storeFails, data)
             IN /\ pending' = pending \ {p}
                /\ IF run.resp.status = 200
                   THEN /\ hook' = [hook EXCEPT !.todos = run.resp.body, !.isLoading = FALSE]
                        /\ UNCHANGED log
                   ELSE /\ hook' = [hook EXCEPT !.isLoading = FALSE]
                        /\ log' = Append(log, [op |-> "toast", by |-> "fetchTodos"])
    /\ UNCHANGED <<env, req, resp, calls, analysis, db, auth, route>>

Find(todos, todoId) == {i \in 1..Len(todos) : todos[i].id = todoId}
Toggled(todoId, status, accepted, returned, shows, kept) ==
    [op |-> "toggle", by |-> "toggleTodoStatus", id |-> todoId, status |-> status,
     accepted |-> accepted, returned |-> returned, shows |-> shows, kept |-> kept]

\* toggleTodoStatus(todoId) up to the await of updateTodo's request
toggleTodoStatus ==
    /\ hook.effectDue = FALSE
    /\ hook.toggles < MaxToggles
    /\ \E todoId \in {"t1", "t2", "t9"} :
          IF Find(hook.todos, todoId) = {}
          THEN /\ log' = Append(log, Toggled(todoId, "", FALSE, FALSE, FALSE, TRUE))
               /\ hook' = [hook EXCEPT !.toggles = hook.toggles + 1]
               /\ UNCHANGED pending
          ELSE LET todo == hook.todos[CHOOSE i \in Find(hook.todos, todoId) : TRUE]
                   newStatus == IF todo.status = "completed" THEN "pending" ELSE "completed"
                   like(n) == PutFetch(todoId, newStatus, n)
               IN /\ pending' = pending \cup {like(FreeSlot(like))}
                  /\ hook' = [hook EXCEPT !.toggles = hook.toggles + 1]
                  /\ UNCHANGED log
    /\ UNCHANGED <<env, req, resp, calls, analysis, db, auth, route>>

\* the answer of the PUT request, the rest of updateTodo and the rest of
\* toggleTodoStatus: updateTodo catches the error of a refused request and
\* returns null
TodoUpdated ==
    /\ hook.effectDue = FALSE
    /\ \E p \in PutFetches, storeFails \in BOOLEAN :
          LET updates == PutBody(Absent, Absent, Absent, Str(<<p.status>>), Absent, Absent)
              run == PutRun(p.id, HookUser, updates, FALSE, storeFails)
              accepted == run.resp.status = 200
              todos == IF accepted
                       THEN [i \in 1..Len(hook.todos) |->
                                IF hook.todos[i].id = p.id THEN run.resp.body
                                ELSE hook.todos[i]]
                       ELSE hook.todos
              shows == \E i \in 1..Len(todos) :
                          todos[i].id = p.id /\ todos[i].status = p.status
          IN /\ pending' = pending \ {p}
             /\ db' = run.db
             /\ hook' = [hook EXCEPT !.todos = todos]
             /\ log' = Append(log, Toggled(p.id, p.status, accepted, TRUE, shows,
                                           todos = hook.todos))
    /\ UNCHANGED <<env, req, resp, calls, analysis, auth, route>>

InitHook ==
    /\ apiKey = TRUE
    /\ today = [y |-> 2026, m |-> 11, d |-> 3]
    /\ hour \in Hours
    /\ req = NoReq
    /\ resp = NoResp
    /\ calls = <<>>
    /\ analysis = NoAnalysis
    /\ db = {r \in Catalogue : r.id \in {"t1", "t2", "t3", "t6"}}
    /\ auth = [session |-> HookUser, user |-> HookUser, profile |-> HookUser,
               isLoading |-> FALSE, signs |-> 0]
    /\ route = [shown |-> "children", effectDue |-> FALSE]
    /\ hook = [todos |-> <<>>, isLoading |-> TRUE, filter |-> DefaultFilter,
               effectDue |-> TRUE, changes |-> 0, toggles |-> 0]
    /\ pending = {}
    /\ log = <<>>

NextHook ==
    \/ HookEffect
    \/ updateFilter
    \/ TodosFetched
    \/ toggleTodoStatus
    \/ TodoUpdated

SpecHook == InitHook /\ [][NextHook]_vars

\* C21: concurrent PUT requests of one user on one task are last-write-wins:
\* no request is rejected because of another, and once all are answered each
\* stored field holds the value of the last applied update that supplied it.
C21_LastWriteWins ==
    /\ \A i \in 1..Len(log) : log[i].resp.status = StatusAlone(log[i].body)
    /\ AllAnswered =>
          \A field \in {"title", "status", "priority", "due_date"} :
             RowNow[field] = LastValue(field)

\* two updates were in flight together and were applied in the reverse of the
\* order they arrived in; both supplied the status, with different values, and
\* only the first applied supplied the priority
C21_Witness ==
    /\ AllAnswered
    /\ Len(log) = 2
    /\ log[1].slot = 2 /\ log[2].slot = 1
    /\ log[1].resp.status = 200 /\ log[2].resp.status = 200
    /\ log[1].body.status.t = "str" /\ log[2].body.status.t = "str"
    /\ log[1].body.status # log[2].body.status
    /\ log[1].body.priority.t # "absent" /\ log[2].body.priority.t = "absent"

(***************************************************************************)
(* C22: the JSON object inside the raw text of the model.                  *)
(***************************************************************************)
\* the completion call of the request returned a text
TextReceived ==
    /\ req.op \in {"parse", "summary"}
    /\ Len(calls) > 0 /\ calls[Len(calls)] = "generateText"
    /\ ~req.gen.throws

\* the text holds a valid JSON object, alone or among prose
HoldsObject == \E i \in 1..Len(req.gen.toks) : req.gen.toks[i] = "o"

\* the answer of the handlers to a text they cannot parse
IsParseFailure ==
    /\ resp.status = 500
    /\ resp.code = (IF req.op = "parse" THEN "" ELSE "PARSE_ERROR")

\* C22: whenever the raw text of the model holds a valid JSON object among
\* prose or fences, also prose with braces of its own or a second object,
\* the object is extracted and parsed and the request succeeds; the request
\* fails with a parse error only when the text holds no object.
C22_ObjectAlwaysExtracted ==
    TextReceived =>
        /\ HoldsObject => resp.status = 200
        /\ IsParseFailure => ~HoldsObject

(***************************************************************************)
(* C23: the due_time of a draft.                                           *)
(***************************************************************************)
\* HH:MM with a two-digit hour 00..23 and a two-digit minute 00..59
IsClockTime(text) ==
    /\ Len(text) = 5
    /\ IsDigit(text[1]) /\ IsDigit(text[2]) /\ text[3] = ":"
    /\ IsDigit(text[4]) /\ IsDigit(text[5])
    /\ 10 * DigitVal(text[1]) + DigitVal(text[2]) <= 23
    /\ 10 * DigitVal(text[4]) + DigitVal(text[5]) <= 59

\* C23: in every draft returned by parse, due_time is null or a string of
\* the form HH:MM with a two-digit hour 00..23 and a two-digit minute
\* 00..59; any other value of the model is discarded.
C23_DueTimeClockOrNull ==
    IsDraft =>
        \/ resp.body.due_time.t = "null"
        \/ resp.body.due_time.t = "str" /\ IsClockTime(resp.body.due_time.s)

(***************************************************************************)
(* C24: which tasks are focus tasks.                                       *)
(***************************************************************************)
\* pending, and of priority 1, or due today, or due no later than two days
\* from now
IsEligible(r) ==
    /\ r.status = "pending"
    /\ \/ r.priority = 1
       \/ DueOnToday(r)
       \/ r.due_date # NullTs /\ TsOrd(r.due_date) <= TsOrd(At(AddDays(today, 2), hour))

Eligible == {r \in Range(req.todos) : IsEligible(r)}
FocusItems == {resp.body.focusTasks[i] : i \in 1..Len(resp.body.focusTasks)}

\* C24: a task is eligible for focusTasks exactly when it is pending and of
\* priority 1, or due today, or due no later than now + 2 days; when at most
\* five tasks are eligible focusTasks holds all of them, and a pending task
\* with no due date and priority 2 or 3 is never listed.
C24_FocusEligibility ==
    IsReport =>
        /\ \A item \in FocusItems : \E r \in Eligible : TodoItem(r) = item
        /\ Cardinality(Eligible) <= FocusLimit =>
              /\ \A r \in Eligible : TodoItem(r) \in FocusItems
              /\ Len(resp.body.focusTasks) = Cardinality(Eligible)
        /\ Cardinality(Eligible) > FocusLimit => Len(resp.body.focusTasks) = FocusLimit
        /\ \A r \in Range(req.todos) :
              (r.status = "pending" /\ r.due_date = NullTs /\ r.priority \in {2, 3})
                  => TodoItem(r) \notin FocusItems

\* a report over a window with an eligible task whose due date has passed
\* and with a completed task of priority 1, which is not eligible
C24_Witness ==
    /\ IsReport
    /\ Cardinality(Eligible) \in 1..FocusLimit
    /\ \E r \in Eligible : r.priority # 1 /\ TsOrd(r.due_date) < TsOrd(At(today, 0))
    /\ \E r \in Range(req.todos) : r.priority = 1 /\ ~IsEligible(r)

(***************************************************************************)
(* C25: the preprocessed text of the prompt.                               *)
(***************************************************************************)
\* the parse request passed validation and its prompt was sent
PromptSent == req.op = "parse" /\ calls = <<"generateText">>

NoSpaceRuns(text) == \A i \in 1..(Len(text) - 1) : ~(IsSpace(text[i]) /\ IsSpace(text[i + 1]))
NoOuterSpace(text) == text = <<>> \/ (~IsSpace(text[1]) /\ ~IsSpace(text[Len(text)]))

\* C25: for every input that passes validation the preprocessed text of the
\* prompt has no leading or trailing whitespace and no run of two or more
\* whitespace characters, also when characters outside the allow-list are
\* stripped, and preprocessing it again leaves it unchanged.
C25_PreprocessedNormalForm ==
    PromptSent =>
        /\ NoOuterSpace(req.prompt)
        /\ NoSpaceRuns(req.prompt)
        /\ preprocessInput(req.prompt) = req.prompt

(***************************************************************************)
(* C30: what a successful PUT leaves unchanged.                            *)
(***************************************************************************)
\* a PUT is answered with the row it updated
PutSucceeds == Answers /\ req'.op = "put" /\ resp'.status = 200

\* the row of the request before the update
RowToUpdate == CHOOSE r \in db : r.id = req'.id /\ r.user_id = req'.caller

\* C30: a successful PUT changes only the fields among title, description,
\* due_date, status and priority that its body supplies, and refreshes the
\* update timestamp: the id, the owner, the creation time and the tags of
\* the row stay as they were, also when the body carries tags, and no other
\* row changes.
C30_PutFrame ==
    [][PutSucceeds =>
          LET new == resp'.body
          IN /\ \E r \in db : r.id = req'.id /\ r.user_id = req'.caller
             /\ db' = (db \ {RowToUpdate}) \cup {new}
             /\ new.id = RowToUpdate.id
             /\ new.user_id = RowToUpdate.user_id
             /\ new.created_at = RowToUpdate.created_at
             /\ new.tags = RowToUpdate.tags
             /\ new.updated_at = Now
             /\ \A field \in {"title", "description", "due_date", "status", "priority"} :
                   req'.body[field].t = "absent" => new[field] = RowToUpdate[field]]_vars

\* a PUT whose body carries tags, as the edit form sends them, was answered
\* with the updated row, whose tags are not those of the body
C30_Witness ==
    /\ req.op = "put"
    /\ resp.status = 200
    /\ req.body.tags = EditTags
    /\ resp.body.tags # TagTexts(EditTags)
    /\ resp.body.status = "completed"

(***************************************************************************)
(* C26: what ProtectedRoute shows and when it redirects.                   *)
(***************************************************************************)
NobodySignedIn == ~auth.isLoading /\ auth.user = NoUser
Redirected == \E i \in 1..Len(log) : log[i] = Push(redirectTo, "ProtectedRoute")

\* C26: ProtectedRoute shows its children only when loading has finished
\* and a user is signed in, so never while user is null, in every state the
\* session check, sign-ins, sign-outs and profile fetches lead to; and once
\* loading has ended with no user its effect is due and, when it runs,
\* pushes the login path.
C26_ProtectedContentGuarded ==
    /\ [](route.shown = "children" => ~auth.isLoading /\ auth.user # NoUser)
    /\ [](NobodySignedIn => route.effectDue \/ Redirected)
    /\ [][(NobodySignedIn' /\ ~NobodySignedIn) => route'.effectDue]_vars
    /\ [][(NobodySignedIn /\ route.effectDue /\ ~route'.effectDue)
            => log' = Append(log, Push(redirectTo, "ProtectedRoute"))]_vars

\* a user signed out, was sent to the login path, and another signed in
C26_Witness ==
    /\ route.shown = "children"
    /\ auth.user # NoUser
    /\ Redirected
    /\ auth.signs >= 2

(***************************************************************************)
(* C28: user and profile of AuthProvider.                                  *)
(***************************************************************************)
AllSettled == pending = {} /\ route.effectDue = FALSE

\* C28: profile is non-null only while user is non-null, whatever the
\* interleaving of the session check, the auth events and the profile
\* fetches; and when the session has ended and nothing is in flight any
\* more, user and profile are both null.
C28_ProfileOnlyWithUser ==
    /\ auth.profile # NoProfile => auth.user # NoUser
    /\ (auth.session = NoUser /\ AllSettled) =>
            auth.user = NoUser /\ auth.profile = NoProfile

(***************************************************************************)
(* C27: the list useTodos shows after its filter changed.                  *)
(***************************************************************************)
ListSettled == ListFetches = {} /\ hook.effectDue = FALSE

\* C27: after the filter was changed twice or more and every list request
\* has been answered, none of them refused, the list shown is the answer
\* for the filter that was set last, in whatever order the answers came.
C27_ListOfLatestFilter ==
    (ListSettled /\ hook.changes >= 2 /\ log = <<>> /\ hook.toggles = 0) =>
        hook.todos \in ListsFor(hook.filter)

(***************************************************************************)
(* C29: what toggleTodoStatus returns.                                     *)
(***************************************************************************)
Toggles == {i \in 1..Len(log) : log[i].op = "toggle"}

\* C29: toggleTodoStatus returns true only when the server accepted the
\* update and the local list shows the new status; when the update failed
\* it returns false and the list is as it was.
C29_ToggleReportsOutcome ==
    \A i \in Toggles :
        /\ log[i].returned => log[i].accepted /\ log[i].shows
        /\ ~log[i].accepted => ~log[i].returned /\ log[i].kept

====
